---- MODULE Spec2Model ----
(***************************************************************************)
(* Request authentication and permission cache of the Patr API server.     *)
(*                                                                         *)
(* Spec: the permission cache protocol of get_permissions_for_login_id     *)
(* (api/src/utils/layers/authenticator.rs) running concurrently with the   *)
(* delete_workspace handler and with the other writers of revocation       *)
(* timestamps, over one shared Redis and one relational store.  Every      *)
(* `.await` of the source is one step of the model.                        *)
(*                                                                         *)
(* Time is counted in ticks.  A revocation timestamp is a unix timestamp   *)
(* (whole seconds); a snapshot's creation_time is an OffsetDateTime and    *)
(* keeps the sub-second part, so one second is TicksPerSec ticks.          *)
(***************************************************************************)
EXTENDS Integers, Sequences, FiniteSets, TLC

\* ------------------------------------------------------------------ bounds

\* Sub-second resolution of the model's clock.
TicksPerSec == 2
\* The clock stops at MaxTime ticks.
MaxTime == 4
\* Number of calls of get_permissions_for_login_id that are started.
MaxCalls == 2
\* Number of revocation timestamps written by the writers other than
\* delete_workspace.
MaxRevocations == 1
\* Number of delete_workspace requests.
MaxDeletes == 1
\* constants::CACHED_PERMISSIONS_VALIDITY in whole seconds, the TTL of a
\* snapshot (scaled down so that a snapshot expires within MaxTime).
CACHED_PERMISSIONS_VALIDITY == 1
\* The margin added to the TTL of a workspace revocation timestamp, in seconds
\* (300 in the source, scaled down with the validity window).
REVOCATION_TTL_MARGIN == 1
\* Number of rows the second and the third query of the resolver return, each.
MaxRuleRows == 2
\* Length of a presented API token string, in symbols.
MaxTokenLen == 5
\* AccessTokenData::REFRESH_TOKEN_VALIDITY in whole seconds (scaled down so
\* that a session token grows too old within MaxTime).
REFRESH_TOKEN_VALIDITY == 1
\* Number of notifications and receive errors that reach the listener.
MaxNotifications == 3

\* ------------------------------------------------------------ identifiers

Requests == {1, 2}
Logins == {1, 2}
\* The login ids that are API tokens.
TokenLogins == {3}
Users == {1, 2}
Workspaces == {1, 2}
\* The workspace ids a delete_workspace path names: 9 has no workspace row.
PathWorkspaceIds == Workspaces \cup {9}
Resources == {3, 4}
Permissions == {1, 2}
NULL == -1

\* ------------------------------------------------------- relational store

\* user_login rows: login 1 is a web login of user 1, login 2 of user 2, and
\* login 3 is an API token of user 2.
user_login ==
    [l \in Logins \cup TokenLogins |->
        IF l \in Logins
        THEN [login_id |-> l, user_id |-> l, login_type |-> "web_login"]
        ELSE [login_id |-> l, user_id |-> 2, login_type |-> "api_token"]]

\* workspace rows: user 1 is the super admin of both workspaces.
workspace ==
    [w \in Workspaces |-> [id |-> w, super_admin_id |-> 1, deleted |-> NULL]]

\* workspace_user rows: user 2 is a member of workspace 1 with role 1.
workspace_user == {[user_id |-> 2, workspace_id |-> 1, role_id |-> 1]}

role_resource_permissions_exclude ==
    {[role_id |-> 1, permission_id |-> 1, resource_id |-> 3],
     [role_id |-> 1, permission_id |-> 1, resource_id |-> 4]}

role_resource_permissions_include ==
    {[role_id |-> 1, permission_id |-> 1, resource_id |-> 4],
     [role_id |-> 1, permission_id |-> 2, resource_id |-> 3]}

\* The API-token tables: token 3 has one include rule of its own.
user_api_token_workspace_super_admin == {}
user_api_token_resource_permissions_exclude == {}
user_api_token_resource_permissions_include ==
    {[token_id |-> 3, workspace_id |-> 1, permission_id |-> 2, resource_id |-> 4]}

\* resource rows at start: every workspace has a resource row of its own id,
\* which is not one of the resources it owns; resource 3 lives in workspace 2,
\* resource 4 of workspace 1 is already deleted.
InitResource ==
    [r \in Workspaces \cup Resources |->
        IF r \in Workspaces THEN [id |-> r, owner_id |-> NULL, deleted |-> NULL]
        ELSE IF r = 3 THEN [id |-> r, owner_id |-> 2, deleted |-> NULL]
        ELSE [id |-> r, owner_id |-> 1, deleted |-> 0]]

\* ------------------------------------------------------------- redis keys

permission_for_login_id(login_id) == <<"permission", login_id>>
user_id_revocation_timestamp(user_id) == <<"user", user_id>>
login_id_revocation_timestamp(login_id) == <<"login", login_id>>
workspace_id_revocation_timestamp(workspace_id) == <<"workspace", workspace_id>>
global_revocation_timestamp == <<"global", 0>>

\* ------------------------------------------------------------ helpers

\* An ascending sequence of a finite set of integers (BTreeMap key order).
RECURSIVE Ascending(_)
Ascending(S) ==
    IF S = {} THEN <<>>
    ELSE LET m == CHOOSE x \in S : \A y \in S : x <= y
         IN  <<m>> \o Ascending(S \ {m})

\* The rows of a query result, in the order the store returns them.
RECURSIVE RowSeq(_)
RowSeq(S) ==
    IF S = {} THEN <<>>
    ELSE LET x == CHOOSE y \in S : TRUE IN <<x>> \o RowSeq(S \ {x})

Coalesce(a, b) == IF a # NULL THEN a ELSE b

\* BTreeMap::insert / entry().or_insert_with() on a map held as a function.
MapPut(m, k, v) == [x \in DOMAIN m \cup {k} |-> IF x = k THEN v ELSE m[x]]

\* ---------------------------------------------------- permission resolver

SuperAdmin == [kind |-> "SuperAdmin", permissions |-> <<>>]
Member(permissions) == [kind |-> "Member", permissions |-> permissions]
Include(resources) == [type |-> "Include", resources |-> resources]
Exclude(resources) == [type |-> "Exclude", resources |-> resources]

\* One side of a LEFT JOIN: the matching rows, or one all-NULL row.
LeftJoin(rows, nullRow) == IF rows = {} THEN {nullRow} ELSE rows

NullRule == [workspace_id |-> NULL, resource_id |-> NULL, permission_id |-> NULL]
NullMember == [user_id |-> NULL, workspace_id |-> NULL, role_id |-> NULL]
NullRole == [role_id |-> NULL, permission_id |-> NULL, resource_id |-> NULL]

\* The first query: the workspaces of which the login is a super admin.
SuperAdminQuery(login_id) ==
    LET logins == {user_login[l] : l \in {x \in DOMAIN user_login : x = login_id}}
        rows(ul) ==
            LET tok == LeftJoin(
                    {t.workspace_id : t \in
                        {x \in user_api_token_workspace_super_admin :
                            ul.login_type = "api_token" /\ x.token_id = ul.login_id}},
                    NULL)
                ws == LeftJoin(
                    {w \in DOMAIN workspace :
                        ul.login_type = "web_login"
                        /\ workspace[w].super_admin_id = ul.user_id},
                    NULL)
            IN  {Coalesce(t, w) : t \in tok, w \in ws}
    IN  {w \in UNION {rows(ul) : ul \in logins} : w # NULL}

\* The second and third query: the (workspace, resource, permission) rules of
\* the login's API token, else of the roles of its user.
RuleQuery(login_id, token_rules, role_rules) ==
    LET logins == {user_login[l] : l \in {x \in DOMAIN user_login : x = login_id}}
        rows(ul) ==
            LET tok == LeftJoin(
                    {[workspace_id |-> x.workspace_id, resource_id |-> x.resource_id,
                      permission_id |-> x.permission_id] : x \in
                        {y \in token_rules :
                            ul.login_type = "api_token" /\ y.token_id = ul.login_id}},
                    NullRule)
                wu == LeftJoin({m \in workspace_user : m.user_id = ul.user_id}, NullMember)
                rr(m) == LeftJoin({x \in role_rules : x.role_id = m.role_id}, NullRole)
            IN  UNION {UNION {{[workspace_id |-> Coalesce(t.workspace_id, m.workspace_id),
                                resource_id |-> Coalesce(t.resource_id, x.resource_id),
                                permission_id |-> Coalesce(t.permission_id, x.permission_id)]
                               : x \in rr(m)} : m \in wu} : t \in tok}
    IN  {row \in UNION {rows(ul) : ul \in logins} :
            row.workspace_id # NULL /\ row.resource_id # NULL /\ row.permission_id # NULL}

ExcludeQuery(login_id) ==
    RuleQuery(login_id, user_api_token_resource_permissions_exclude,
              role_resource_permissions_exclude)

IncludeQuery(login_id) ==
    RuleQuery(login_id, user_api_token_resource_permissions_include,
              role_resource_permissions_include)

\* for_each of the first query: insert(workspace_id, SuperAdmin).
RECURSIVE InsertSuperAdmins(_, _)
InsertSuperAdmins(workspace_permissions, rows) ==
    IF rows = <<>> THEN workspace_permissions
    ELSE InsertSuperAdmins(MapPut(workspace_permissions, Head(rows), SuperAdmin),
                           Tail(rows))

\* InsertExclude without the SuperAdmin arm of the match: the entry of the
\* workspace is taken for a Member in every case.
InsertExcludeNoGuard(workspace_permissions, row) ==
    LET w == row.workspace_id
        p == row.permission_id
        wp == IF w \in DOMAIN workspace_permissions
                 /\ workspace_permissions[w].kind = "Member"
              THEN workspace_permissions ELSE MapPut(workspace_permissions, w, Member(<<>>))
        ps == IF p \in DOMAIN wp[w].permissions
              THEN wp[w].permissions
              ELSE MapPut(wp[w].permissions, p, Exclude({}))
    IN  MapPut(wp, w, Member(MapPut(ps, p,
            Exclude(ps[p].resources \cup {row.resource_id}))))

\* InsertExclude that replaces the Exclude set by the row's resource instead
\* of inserting into it.
InsertExcludeReplace(workspace_permissions, row) ==
    LET w == row.workspace_id
        p == row.permission_id
        wp == IF w \in DOMAIN workspace_permissions
              THEN workspace_permissions ELSE MapPut(workspace_permissions, w, Member(<<>>))
    IN  IF wp[w].kind = "SuperAdmin" THEN wp
        ELSE LET ps == IF p \in DOMAIN wp[w].permissions
                       THEN wp[w].permissions
                       ELSE MapPut(wp[w].permissions, p, Exclude({}))
             IN  IF ps[p].type = "Include"
                 THEN MapPut(wp, w, Member(ps))
                 ELSE MapPut(wp, w, Member(MapPut(ps, p, Exclude({row.resource_id}))))

\* The body of the for_each of the second query, for one row.
InsertExclude(workspace_permissions, row) ==
    LET w == row.workspace_id
        p == row.permission_id
        wp == IF w \in DOMAIN workspace_permissions
              THEN workspace_permissions ELSE MapPut(workspace_permissions, w, Member(<<>>))
    IN  IF wp[w].kind = "SuperAdmin" THEN wp
        ELSE LET ps == IF p \in DOMAIN wp[w].permissions
                       THEN wp[w].permissions
                       ELSE MapPut(wp[w].permissions, p, Exclude({}))
             IN  IF ps[p].type = "Include"
                 THEN MapPut(wp, w, Member(ps))
                 ELSE MapPut(wp, w, Member(MapPut(ps, p,
                          Exclude(ps[p].resources \cup {row.resource_id}))))

\* InsertInclude whose Exclude arm leaves the set as it is.
InsertIncludeNoRemove(workspace_permissions, row) ==
    LET w == row.workspace_id
        p == row.permission_id
        wp == IF w \in DOMAIN workspace_permissions
              THEN workspace_permissions ELSE MapPut(workspace_permissions, w, Member(<<>>))
    IN  IF wp[w].kind = "SuperAdmin" THEN wp
        ELSE LET ps == IF p \in DOMAIN wp[w].permissions
                       THEN wp[w].permissions
                       ELSE MapPut(wp[w].permissions, p, Include({}))
             IN  IF ps[p].type = "Include"
                 THEN MapPut(wp, w, Member(MapPut(ps, p,
                          Include(ps[p].resources \cup {row.resource_id}))))
                 ELSE MapPut(wp, w, Member(ps))

\* InsertInclude whose Exclude arm replaces the entry by an Include entry of
\* the resource.
InsertIncludeOverwrite(workspace_permissions, row) ==
    LET w == row.workspace_id
        p == row.permission_id
        wp == IF w \in DOMAIN workspace_permissions
              THEN workspace_permissions ELSE MapPut(workspace_permissions, w, Member(<<>>))
    IN  IF wp[w].kind = "SuperAdmin" THEN wp
        ELSE LET ps == IF p \in DOMAIN wp[w].permissions
                       THEN wp[w].permissions
                       ELSE MapPut(wp[w].permissions, p, Include({}))
             IN  IF ps[p].type = "Include"
                 THEN MapPut(wp, w, Member(MapPut(ps, p,
                          Include(ps[p].resources \cup {row.resource_id}))))
                 ELSE MapPut(wp, w, Member(MapPut(ps, p, Include({row.resource_id}))))

\* The body of the for_each of the third query, for one row.
InsertInclude(workspace_permissions, row) ==
    LET w == row.workspace_id
        p == row.permission_id
        wp == IF w \in DOMAIN workspace_permissions
              THEN workspace_permissions ELSE MapPut(workspace_permissions, w, Member(<<>>))
    IN  IF wp[w].kind = "SuperAdmin" THEN wp
        ELSE LET ps == IF p \in DOMAIN wp[w].permissions
                       THEN wp[w].permissions
                       ELSE MapPut(wp[w].permissions, p, Include({}))
             IN  IF ps[p].type = "Include"
                 THEN MapPut(wp, w, Member(MapPut(ps, p,
                          Include(ps[p].resources \cup {row.resource_id}))))
                 ELSE MapPut(wp, w, Member(MapPut(ps, p,
                          Exclude(ps[p].resources \ {row.resource_id}))))

RECURSIVE InsertExcludes(_, _)
InsertExcludes(workspace_permissions, rows) ==
    IF rows = <<>> THEN workspace_permissions
    ELSE InsertExcludes(InsertExclude(workspace_permissions, Head(rows)), Tail(rows))

RECURSIVE InsertIncludes(_, _)
InsertIncludes(workspace_permissions, rows) ==
    IF rows = <<>> THEN workspace_permissions
    ELSE InsertIncludes(InsertInclude(workspace_permissions, Head(rows)), Tail(rows))

\* The three passes run one after another on an unchanging store.
Resolve(login_id) ==
    InsertIncludes(
        InsertExcludes(
            InsertSuperAdmins(<<>>, RowSeq(SuperAdminQuery(login_id))),
            RowSeq(ExcludeQuery(login_id))),
        RowSeq(IncludeQuery(login_id)))

\* ------------------------------------------------------------------ state

VARIABLES
    now,          \* the wall clock, in ticks
    resource,     \* the resource table: id -> row
    redis,        \* the key-value store: key -> [value, exp], absent keys absent
    req,          \* the calls of get_permissions_for_login_id in flight
    dw,           \* the delete_workspace request in flight
    calls,        \* calls of get_permissions_for_login_id started so far
    revocations,  \* revocation timestamps written by the other writers so far
    deletes,      \* delete_workspace requests started so far
    rs,           \* one run of the three passes of the resolver over given rows
    au,           \* one request in AuthenticationService::call, and its tables
    relay         \* the redis_publisher task

vars == <<now, resource, redis, req, dw, calls, revocations, deletes, rs, au, relay>>

\* A call that has not started.  An Option is a sequence of length 0 or 1.
\*   data                  the snapshot read from Redis (Some(Ok(data)))
\*   todo                  the rest of data.permission.keys()
\*   workspace_permissions the map the three queries fill
\*   reads, dels           the revocation keys read (with the outcome) and deleted
\*   queries               the relational queries made
\*   seen                  the workspaces whose resource row was deleted at the
\*                         last relational query
\*   stale                 history: the workspaces of data.permission that
\*                         delete_workspace had revoked, with a timestamp
\*                         after data.creation_time, when data was read
\*   wrote, result         the snapshot written and the Ok(..) returned
\*   observed              history: the login or workspace revocation
\*                         timestamp the call read as applicable
\*   error                 TRUE when the call returned Err(..)
\*   faults                history: the operations on a store that failed
IdleReq ==
    [pc |-> "idle", login_id |-> 0, user_id |-> 0, data |-> <<>>, todo |-> <<>>,
     workspace_permissions |-> <<>>, reads |-> <<>>, dels |-> <<>>, queries |-> 0,
     seen |-> {}, stale |-> {}, wrote |-> <<>>, result |-> <<>>,
     error |-> FALSE, faults |-> <<>>, observed |-> <<>>]

\*   wrote                 the revocation timestamp written
\*   was_deleted           history: the resource row of the workspace was
\*                         marked deleted when the request arrived
IdleDw ==
    [pc |-> "idle", workspace_id |-> 0, user_id |-> 0, wrote |-> <<>>,
     result |-> "none", was_deleted |-> FALSE]

\* The resolver run of SpecResolver, not started.
\*   input                 the rows the three queries return
\*   todo1, todo2, todo3   the rows of each query not yet handed to its for_each
\*   pass2                 history: workspace_permissions when the third
\*                         for_each began
IdleRs ==
    [input |-> [super_admins |-> {}, excludes |-> {}, includes |-> {}],
     todo1 |-> {}, todo2 |-> {}, todo3 |-> {},
     workspace_permissions |-> <<>>, pass2 |-> <<>>]

\* The request of SpecAuth before it arrives, and the user_api_token row.
\*   user_api_token        the row of the table (an Option)
\*   token, jwt            the bearer token: an API token string, or a JWT
\*   arrived               history: the instant the request arrived
\*   refresh_token, login_id   the two identifiers parsed from the API token
\*   row, claims, user     the fetched token row, the decoded claims, the
\*                         fetched web login
\*   checks                history: the checks made, with their outcome
\*   store_ops             history: the store operations made
\*   twin                  history: the outcome of the token-row fetch on a
\*                         store without the row
\*   permissions, inner    the grant set obtained, the user_data handed to
\*                         the inner service
\*   result                the Err(..) returned, or "Ok"
IdleAu ==
    [user_api_token |-> <<>>, pc |-> "idle", client_type |-> "none", token |-> <<>>,
     jwt |-> <<>>, client_ip |-> 0, arrived |-> 0, refresh_token |-> 0, login_id |-> 0,
     row |-> <<>>, claims |-> <<>>, user |-> <<>>, checks |-> <<>>,
     store_ops |-> <<>>, twin |-> <<>>, permissions |-> <<>>, inner |-> <<>>,
     result |-> <<>>]

\* The redis_publisher task once the listener is subscribed and the exit
\* signal pinned: Listening, at its first select.
\*   pc                    "select" (Listening), "publish" (Listening, awaiting
\*                         the publish), "stopped"
\*   exit_signal           the exit_signal future: "pending" or "ready"
\*   inbox                 what listener.recv() will return, oldest first
\*   message               the notification being published
\*   received, published, failed   history: the notifications received, those
\*                         published, those whose publish failed
\*   notified              history: the notifications the store sent, in order
\*   publish_calls         history: the calls of redis.publish in the order
\*                         they were issued, each with its outcome ("pending"
\*                         while awaited) and whether the exit signal had
\*                         fired when it was issued and when it completed
IdleRelay ==
    [pc |-> "select", exit_signal |-> "pending", inbox |-> <<>>, message |-> <<>>,
     received |-> <<>>, published |-> <<>>, failed |-> <<>>, arrivals |-> 0,
     notified |-> <<>>, publish_calls |-> <<>>]

\* Redis at start: empty, or holding the snapshot of every login, resolved and
\* written at the instant 0.
InitRedis ==
    {<<>>,
     [key \in {permission_for_login_id(l) : l \in Logins} |->
        [value |-> [permission |-> Resolve(key[2]), creation_time |-> 0],
         exp |-> CACHED_PERMISSIONS_VALIDITY * TicksPerSec]]}

Init ==
    /\ now = 0
    /\ resource = InitResource
    /\ redis \in InitRedis
    /\ req = [r \in Requests |-> IdleReq]
    /\ dw = IdleDw
    /\ calls = 0
    /\ revocations = 0
    /\ deletes = 0
    /\ rs = IdleRs
    /\ au = IdleAu
    /\ relay = IdleRelay

\* ------------------------------------------------------------------ redis

\* OffsetDateTime::from_unix_timestamp: whole seconds to an instant.
FromUnixTimestamp(secs) == secs * TicksPerSec
\* OffsetDateTime::unix_timestamp: an instant to whole seconds.
UnixTimestamp(t) == t \div TicksPerSec

\* SET key value EX seconds NX: a write that keeps an existing value.
SetNx(store, key, seconds, value, t) ==
    IF key \in DOMAIN store THEN store
    ELSE MapPut(store, key, [value |-> value, exp |-> t + seconds * TicksPerSec])

\* SETEX key seconds value, issued at the instant t.
SetEx(store, key, seconds, value, t) ==
    MapPut(store, key, [value |-> value, exp |-> t + seconds * TicksPerSec])
\* DEL key.
Del(store, key) == [k \in DOMAIN store \ {key} |-> store[k]]
\* The keys whose TTL has run out at the instant t are gone.
Expire(store, t) == [k \in {x \in DOMAIN store : store[x].exp > t} |-> store[k]]

\* A revocation timestamp invalidates the data inserted before it.
Applicable(creation_time, time) == creation_time < time

\* GET key, then .and_then(from_unix_timestamp).filter(creation_time < time).is_some()
Revoked(data, key) ==
    /\ key \in DOMAIN redis
    /\ Applicable(data.creation_time, FromUnixTimestamp(redis[key].value))

\* data.permission.keys(): a BTreeMap iterates in ascending key order.
WorkspaceIds(data) == Ascending(DOMAIN data.permission)

DeletedResources == {w \in DOMAIN resource : resource[w].deleted # NULL}

\* ------------------------------------ get_permissions_for_login_id: the hit

\* The caller starts get_permissions_for_login_id(login_id, user_id); the call
\* takes the first free slot of the model.
Call(r, login_id) ==
    /\ req[r].pc \in {"idle", "done"}
    /\ \A other \in Requests : other < r => req[other].pc \notin {"idle", "done"}
    /\ calls < MaxCalls
    /\ calls' = calls + 1
    /\ req' = [req EXCEPT ![r] = [IdleReq EXCEPT !.pc = "get",
                                     !.login_id = login_id,
                                     !.user_id = user_login[login_id].user_id]]
    /\ UNCHANGED <<now, resource, redis, dw, revocations, deletes, rs, au, relay>>

\* The workspaces of a snapshot that delete_workspace has revoked since the
\* snapshot was created.
StaleWorkspaces(data) ==
    {w \in DOMAIN data.permission :
        /\ dw.wrote # <<>>
        /\ dw.workspace_id = w
        /\ data.creation_time < FromUnixTimestamp(dw.wrote[1])}

\* GetSnapshot with a get that starts the TTL of the snapshot again.
GetSnapshotRefresh(r) ==
    LET key == permission_for_login_id(req[r].login_id) IN
    /\ req[r].pc = "get"
    /\ req' = [req EXCEPT ![r] =
                IF key \in DOMAIN redis
                THEN [@ EXCEPT !.pc = "user", !.data = <<redis[key].value>>,
                               !.stale = StaleWorkspaces(redis[key].value)]
                ELSE [@ EXCEPT !.pc = "query1"]]
    /\ redis' = IF key \in DOMAIN redis
                THEN SetEx(redis, key, CACHED_PERMISSIONS_VALIDITY, redis[key].value, now)
                ELSE redis
    /\ UNCHANGED <<now, resource, dw, calls, revocations, deletes, rs, au, relay>>

\* redis.get(permission_for_login_id(login_id)) and the `if let Some(Ok(data))`.
GetSnapshot(r) ==
    LET key == permission_for_login_id(req[r].login_id) IN
    /\ req[r].pc = "get"
    /\ req' = [req EXCEPT ![r] =
                IF key \in DOMAIN redis
                THEN [@ EXCEPT !.pc = "user", !.data = <<redis[key].value>>,
                               !.stale = StaleWorkspaces(redis[key].value)]
                ELSE [@ EXCEPT !.pc = "query1"]]
    /\ UNCHANGED <<now, resource, redis, dw, calls, revocations, deletes, rs, au, relay>>

\* `break 'is_valid` leaves the labelled block; the statement after the block
\* is `return Ok(data.permission)`.
ReturnCached(q) == [q EXCEPT !.pc = "done", !.result = <<q.data[1].permission>>]

\* The pc after the login check found nothing: the workspace loop, or the
\* global check when data.permission has no key.
AfterLogin(q) ==
    IF WorkspaceIds(q.data[1]) = <<>>
    THEN [q EXCEPT !.pc = "global"]
    ELSE [q EXCEPT !.pc = "workspace", !.todo = WorkspaceIds(q.data[1])]

\* CheckUser without the `break`: the login check follows in every case.
CheckUserNoBreak(r) ==
    LET q == req[r]
        key == user_id_revocation_timestamp(q.user_id)
        revoked == Revoked(q.data[1], key)
        read == [q EXCEPT !.reads = Append(@, [key |-> key, revoked |-> revoked])]
    IN
    /\ q.pc = "user"
    /\ req' = [req EXCEPT ![r] = [read EXCEPT !.pc = "login"]]
    /\ UNCHANGED <<now, resource, redis, dw, calls, revocations, deletes, rs, au, relay>>

\* The get of the user revocation timestamp; no delete follows it.
CheckUser(r) ==
    LET q == req[r]
        key == user_id_revocation_timestamp(q.user_id)
        revoked == Revoked(q.data[1], key)
        read == [q EXCEPT !.reads = Append(@, [key |-> key, revoked |-> revoked])]
    IN
    /\ q.pc = "user"
    /\ req' = [req EXCEPT ![r] =
                IF revoked THEN ReturnCached(read) ELSE [read EXCEPT !.pc = "login"]]
    /\ UNCHANGED <<now, resource, redis, dw, calls, revocations, deletes, rs, au, relay>>

\* CheckLogin deleting every login revocation timestamp it finds.
CheckLoginDeleteAny(r) ==
    LET q == req[r]
        key == login_id_revocation_timestamp(q.login_id)
        revoked == Revoked(q.data[1], key)
        read == [q EXCEPT !.reads = Append(@, [key |-> key, revoked |-> revoked]),
                          !.observed = IF revoked THEN <<redis[key].value>>
                                       ELSE <<>>]
    IN
    /\ q.pc = "login"
    /\ req' = [req EXCEPT ![r] =
                IF key \in DOMAIN redis
                THEN [read EXCEPT !.pc = "login_del"] ELSE AfterLogin(read)]
    /\ UNCHANGED <<now, resource, redis, dw, calls, revocations, deletes, rs, au, relay>>

\* The get of the login revocation timestamp.
CheckLogin(r) ==
    LET q == req[r]
        key == login_id_revocation_timestamp(q.login_id)
        revoked == Revoked(q.data[1], key)
        read == [q EXCEPT !.reads = Append(@, [key |-> key, revoked |-> revoked]),
                          !.observed = IF revoked THEN <<redis[key].value>>
                                       ELSE <<>>]
    IN
    /\ q.pc = "login"
    /\ req' = [req EXCEPT ![r] =
                IF revoked THEN [read EXCEPT !.pc = "login_del"] ELSE AfterLogin(read)]
    /\ UNCHANGED <<now, resource, redis, dw, calls, revocations, deletes, rs, au, relay>>

\* The del of the login revocation timestamp; its outcome is dropped.
DelLogin(r) ==
    LET q == req[r]
        key == login_id_revocation_timestamp(q.login_id)
    IN
    /\ q.pc = "login_del"
    /\ redis' = Del(redis, key)
    /\ req' = [req EXCEPT ![r] = ReturnCached([q EXCEPT !.dels = Append(@, key)])]
    /\ UNCHANGED <<now, resource, dw, calls, revocations, deletes, rs, au, relay>>

\* CheckWorkspace deleting every workspace revocation timestamp it finds.
CheckWorkspaceDeleteAny(r) ==
    LET q == req[r]
        key == workspace_id_revocation_timestamp(Head(q.todo))
        revoked == Revoked(q.data[1], key)
        read == [q EXCEPT !.reads = Append(@, [key |-> key, revoked |-> revoked]),
                          !.observed = IF revoked THEN <<redis[key].value>>
                                       ELSE <<>>]
    IN
    /\ q.pc = "workspace"
    /\ req' = [req EXCEPT ![r] =
                IF key \in DOMAIN redis THEN [read EXCEPT !.pc = "workspace_del"]
                ELSE IF Tail(q.todo) = <<>>
                     THEN [read EXCEPT !.pc = "global", !.todo = <<>>]
                     ELSE [read EXCEPT !.todo = Tail(q.todo)]]
    /\ UNCHANGED <<now, resource, redis, dw, calls, revocations, deletes, rs, au, relay>>

\* One iteration of `for workspace_id in data.permission.keys()`: the get.
CheckWorkspace(r) ==
    LET q == req[r]
        key == workspace_id_revocation_timestamp(Head(q.todo))
        revoked == Revoked(q.data[1], key)
        read == [q EXCEPT !.reads = Append(@, [key |-> key, revoked |-> revoked]),
                          !.observed = IF revoked THEN <<redis[key].value>>
                                       ELSE <<>>]
    IN
    /\ q.pc = "workspace"
    /\ req' = [req EXCEPT ![r] =
                IF revoked THEN [read EXCEPT !.pc = "workspace_del"]
                ELSE IF Tail(q.todo) = <<>>
                     THEN [read EXCEPT !.pc = "global", !.todo = <<>>]
                     ELSE [read EXCEPT !.todo = Tail(q.todo)]]
    /\ UNCHANGED <<now, resource, redis, dw, calls, revocations, deletes, rs, au, relay>>

\* The del of the workspace revocation timestamp just read.
DelWorkspace(r) ==
    LET q == req[r]
        key == workspace_id_revocation_timestamp(Head(q.todo))
    IN
    /\ q.pc = "workspace_del"
    /\ redis' = Del(redis, key)
    /\ req' = [req EXCEPT ![r] = ReturnCached([q EXCEPT !.dels = Append(@, key)])]
    /\ UNCHANGED <<now, resource, dw, calls, revocations, deletes, rs, au, relay>>

\* The get of the global revocation timestamp.
CheckGlobal(r) ==
    LET q == req[r]
        key == global_revocation_timestamp
        revoked == Revoked(q.data[1], key)
        read == [q EXCEPT !.reads = Append(@, [key |-> key, revoked |-> revoked])]
    IN
    /\ q.pc = "global"
    /\ req' = [req EXCEPT ![r] =
                IF revoked THEN [read EXCEPT !.pc = "global_del"] ELSE ReturnCached(read)]
    /\ UNCHANGED <<now, resource, redis, dw, calls, revocations, deletes, rs, au, relay>>

\* The del of the global revocation timestamp.
DelGlobal(r) ==
    LET q == req[r]
        key == global_revocation_timestamp
    IN
    /\ q.pc = "global_del"
    /\ redis' = Del(redis, key)
    /\ req' = [req EXCEPT ![r] = ReturnCached([q EXCEPT !.dels = Append(@, key)])]
    /\ UNCHANGED <<now, resource, dw, calls, revocations, deletes, rs, au, relay>>

\* ----------------------------------- get_permissions_for_login_id: the miss

\* The first query and its for_each.
Query1(r) ==
    LET q == req[r] IN
    /\ q.pc = "query1"
    /\ req' = [req EXCEPT ![r] =
                [q EXCEPT !.pc = "query2", !.queries = 1, !.seen = DeletedResources,
                          !.workspace_permissions =
                              InsertSuperAdmins(<<>>, RowSeq(SuperAdminQuery(q.login_id)))]]
    /\ UNCHANGED <<now, resource, redis, dw, calls, revocations, deletes, rs, au, relay>>

\* The second query and its for_each.
Query2(r) ==
    LET q == req[r] IN
    /\ q.pc = "query2"
    /\ req' = [req EXCEPT ![r] =
                [q EXCEPT !.pc = "query3", !.queries = 2, !.seen = DeletedResources,
                          !.workspace_permissions =
                              InsertExcludes(@, RowSeq(ExcludeQuery(q.login_id)))]]
    /\ UNCHANGED <<now, resource, redis, dw, calls, revocations, deletes, rs, au, relay>>

\* The third query and its for_each.
Query3(r) ==
    LET q == req[r] IN
    /\ q.pc = "query3"
    /\ req' = [req EXCEPT ![r] =
                [q EXCEPT !.pc = "setex", !.queries = 3, !.seen = DeletedResources,
                          !.workspace_permissions =
                              InsertIncludes(@, RowSeq(IncludeQuery(q.login_id)))]]
    /\ UNCHANGED <<now, resource, redis, dw, calls, revocations, deletes, rs, au, relay>>

\* A UserPermissionCache whose creation_time is the unix epoch.
EpochSnapshot(workspace_permissions, t) ==
    [permission |-> workspace_permissions, creation_time |-> 0]

\* A UserPermissionCache serialized before the grant set was filled in.
NewSnapshotEmpty(workspace_permissions, t) ==
    [permission |-> <<>>, creation_time |-> t]

\* The UserPermissionCache serialized by the setex.
NewSnapshot(workspace_permissions, t) ==
    [permission |-> workspace_permissions, creation_time |-> t]

\* A snapshot written with a TTL longer than a revocation timestamp's.
WriteSnapshotLongLived(r) ==
    LET q == req[r]
        key == permission_for_login_id(q.login_id)
        snapshot == NewSnapshot(q.workspace_permissions, now)
        store == SetEx(redis, key,
                       2 * CACHED_PERMISSIONS_VALIDITY + REVOCATION_TTL_MARGIN,
                       snapshot, now)
    IN
    /\ q.pc = "setex"
    /\ redis' = store
    /\ req' = [req EXCEPT ![r] =
                [q EXCEPT !.pc = "done", !.wrote = <<snapshot>>,
                          !.result = <<q.workspace_permissions>>]]
    /\ UNCHANGED <<now, resource, dw, calls, revocations, deletes, rs, au, relay>>

\* redis.setex(permission_for_login_id, CACHED_PERMISSIONS_VALIDITY, ..) and
\* Ok(workspace_permissions).
WriteSnapshot(r) ==
    LET q == req[r]
        key == permission_for_login_id(q.login_id)
        snapshot == NewSnapshot(q.workspace_permissions, now)
        store == SetEx(redis, key, CACHED_PERMISSIONS_VALIDITY, snapshot, now)
    IN
    /\ q.pc = "setex"
    /\ redis' = store
    /\ req' = [req EXCEPT ![r] =
                [q EXCEPT !.pc = "done", !.wrote = <<snapshot>>,
                          !.result = <<q.workspace_permissions>>]]
    /\ UNCHANGED <<now, resource, dw, calls, revocations, deletes, rs, au, relay>>

\* --------------------------------------------------------- delete_workspace

\* A user sends DELETE /workspace/:workspace_id, one of at most limit
\* requests.
DwCallUpTo(limit, workspace_id, user_id) ==
    /\ dw.pc \in {"idle", "done"}
    /\ deletes < limit
    /\ deletes' = deletes + 1
    /\ dw' = [IdleDw EXCEPT !.pc = "select", !.workspace_id = workspace_id,
                            !.user_id = user_id,
                            !.was_deleted = /\ workspace_id \in DOMAIN resource
                                            /\ resource[workspace_id].deleted # NULL]
    /\ UNCHANGED <<now, resource, redis, req, calls, revocations, rs, au, relay>>

DwCall(workspace_id, user_id) == DwCallUpTo(MaxDeletes, workspace_id, user_id)

\* SELECT * FROM workspace WHERE id = $1 AND deleted IS NULL, and the check
\* of the owner.
DwSelect ==
    LET found == dw.workspace_id \in DOMAIN workspace
                 /\ workspace[dw.workspace_id].deleted = NULL
    IN
    /\ dw.pc = "select"
    /\ dw' = IF ~found
             THEN [dw EXCEPT !.pc = "done", !.result = "ResourceDoesNotExist"]
             ELSE IF workspace[dw.workspace_id].super_admin_id # dw.user_id
             THEN [dw EXCEPT !.pc = "done", !.result = "ResourceDoesNotExist"]
             ELSE [dw EXCEPT !.pc = "count"]
    /\ UNCHANGED <<now, resource, redis, req, calls, revocations, deletes, rs, au, relay>>

\* SELECT COUNT(*) FROM resource WHERE owner_id = $1 AND deleted IS NULL.
ResourceCount(workspace_id) ==
    Cardinality({r \in DOMAIN resource :
                    resource[r].owner_id = workspace_id /\ resource[r].deleted = NULL})

\* delete_workspace without the check of the count.
DwCountUnchecked ==
    /\ dw.pc = "count"
    /\ dw' = [dw EXCEPT !.pc = "update"]
    /\ UNCHANGED <<now, resource, redis, req, calls, revocations, deletes, rs, au, relay>>

DwCount ==
    /\ dw.pc = "count"
    /\ dw' = IF ResourceCount(dw.workspace_id) > 0
             THEN [dw EXCEPT !.pc = "done", !.result = "WorkspaceNotEmpty"]
             ELSE [dw EXCEPT !.pc = "update"]
    /\ UNCHANGED <<now, resource, redis, req, calls, revocations, deletes, rs, au, relay>>

\* UPDATE resource SET deleted = NOW() WHERE id = $1.
DwUpdate ==
    /\ dw.pc = "update"
    /\ resource' = [r \in DOMAIN resource |->
                      IF r = dw.workspace_id
                      THEN [resource[r] EXCEPT !.deleted = now] ELSE resource[r]]
    /\ dw' = [dw EXCEPT !.pc = "setex"]
    /\ UNCHANGED <<now, redis, req, calls, revocations, deletes, rs, au, relay>>

\* The TTL of a revocation timestamp, in seconds.
RevocationTtl == CACHED_PERMISSIONS_VALIDITY + REVOCATION_TTL_MARGIN

\* A setex whose value is the instant of the UPDATE.
DwSetexAtUpdate ==
    /\ dw.pc = "setex"
    /\ redis' = SetEx(redis, workspace_id_revocation_timestamp(dw.workspace_id),
                      RevocationTtl, UnixTimestamp(resource[dw.workspace_id].deleted),
                      now)
    /\ dw' = [dw EXCEPT !.pc = "done",
                        !.wrote = <<UnixTimestamp(resource[dw.workspace_id].deleted)>>,
                        !.result = "ResetContent"]
    /\ UNCHANGED <<now, resource, req, calls, revocations, deletes, rs, au, relay>>

\* redis.setex(workspace_id_revocation_timestamp(workspace.id), validity + 300,
\* now_utc().unix_timestamp()) and the RESET_CONTENT response.
DwSetex ==
    /\ dw.pc = "setex"
    /\ redis' = SetEx(redis, workspace_id_revocation_timestamp(dw.workspace_id),
                      RevocationTtl, UnixTimestamp(now), now)
    /\ dw' = [dw EXCEPT !.pc = "done", !.wrote = <<UnixTimestamp(now)>>,
                        !.result = "ResetContent"]
    /\ UNCHANGED <<now, resource, req, calls, revocations, deletes, rs, au, relay>>

\* redis.setex(..).await.inspect_err(..)? fails: the handler returns the
\* error; the timestamp is written or not.
DwSetexFails(written) ==
    /\ dw.pc = "setex"
    /\ redis' = IF written
                THEN SetEx(redis, workspace_id_revocation_timestamp(dw.workspace_id),
                           RevocationTtl, UnixTimestamp(now), now)
                ELSE redis
    /\ dw' = [dw EXCEPT !.pc = "done", !.result = "server_error"]
    /\ UNCHANGED <<now, resource, req, calls, revocations, deletes, rs, au, relay>>

\* ------------------------------------------ the other revocation writers

\* The keys written by the handlers that revoke a user, a login or everything.
OtherRevocationKeys ==
    {user_id_revocation_timestamp(u) : u \in Users}
        \cup {login_id_revocation_timestamp(l) : l \in Logins}
        \cup {global_revocation_timestamp}

\* A mutation handler writes a revocation timestamp of the current second,
\* one of at most limit writes.
WriteRevocationUpTo(limit, key) ==
    /\ revocations < limit
    /\ revocations' = revocations + 1
    /\ redis' = SetEx(redis, key, RevocationTtl, UnixTimestamp(now), now)
    /\ UNCHANGED <<now, resource, req, dw, calls, deletes, rs, au, relay>>

WriteRevocation(key) == WriteRevocationUpTo(MaxRevocations, key)

\* ------------------------------------------------------------------ clock

\* Time passes, up to the instant limit; Redis drops the keys whose TTL has
\* run out.
TickUntil(limit) ==
    /\ now < limit
    /\ now' = now + 1
    /\ redis' = Expire(redis, now + 1)
    /\ UNCHANGED <<resource, req, dw, calls, revocations, deletes, rs, au, relay>>

Tick == TickUntil(MaxTime)

\* ------------------------------------------------------------ specification

\* One step of the call r of get_permissions_for_login_id.
ReqStep(r) ==
    \/ GetSnapshot(r)
    \/ CheckUser(r)
    \/ CheckLogin(r)
    \/ DelLogin(r)
    \/ CheckWorkspace(r)
    \/ DelWorkspace(r)
    \/ CheckGlobal(r)
    \/ DelGlobal(r)
    \/ Query1(r)
    \/ Query2(r)
    \/ Query3(r)
    \/ WriteSnapshot(r)

Next ==
    \/ \E r \in Requests, l \in Logins : Call(r, l)
    \/ \E r \in Requests : ReqStep(r)
    \/ \E w \in PathWorkspaceIds, u \in Users : DwCall(w, u)
    \/ DwSelect
    \/ DwCount
    \/ DwUpdate
    \/ DwSetex
    \/ \E key \in OtherRevocationKeys : WriteRevocation(key)
    \/ Tick

Spec == Init /\ [][Next]_vars

\* --------------------------- get_permissions_for_login_id: failing stores

\* The call where its operation on a store failed.
Faulted(q) == [q EXCEPT !.faults = Append(@, q.pc)]

\* `?` on the Err(..) of an operation: the call returns the error.
ReturnErr(q) == [q EXCEPT !.pc = "done", !.error = TRUE]

\* A get whose error is taken for an absent key: the resolver runs.
ReadFailsAsMiss(r) ==
    LET q == req[r] IN
    /\ q.pc \in {"get", "user", "login", "workspace", "global"}
    /\ req' = [req EXCEPT ![r] = [Faulted(q) EXCEPT !.pc = "query1"]]
    /\ UNCHANGED <<now, resource, redis, dw, calls, revocations, deletes, rs, au, relay>>

\* redis.get(..).await? fails: the get of the snapshot or of a revocation
\* timestamp.
ReadFails(r) ==
    LET q == req[r] IN
    /\ q.pc \in {"get", "user", "login", "workspace", "global"}
    /\ req' = [req EXCEPT ![r] = ReturnErr(Faulted(q))]
    /\ UNCHANGED <<now, resource, redis, dw, calls, revocations, deletes, rs, au, relay>>

\* The key a del of the call is about.
DelKey(q) ==
    IF q.pc = "login_del" THEN login_id_revocation_timestamp(q.login_id)
    ELSE IF q.pc = "workspace_del" THEN workspace_id_revocation_timestamp(Head(q.todo))
    ELSE global_revocation_timestamp

\* `_ = redis.del(..).await` fails: the error is dropped, and the key is
\* deleted or not.
DelFails(r, deleted) ==
    LET q == req[r] IN
    /\ q.pc \in {"login_del", "workspace_del", "global_del"}
    /\ redis' = IF deleted THEN Del(redis, DelKey(q)) ELSE redis
    /\ req' = [req EXCEPT ![r] = ReturnCached(Faulted(q))]
    /\ UNCHANGED <<now, resource, dw, calls, revocations, deletes, rs, au, relay>>

\* query!(..).fetch(..).try_for_each(..).await? fails.
QueryFails(r) ==
    LET q == req[r] IN
    /\ q.pc \in {"query1", "query2", "query3"}
    /\ req' = [req EXCEPT ![r] = ReturnErr(Faulted(q))]
    /\ UNCHANGED <<now, resource, redis, dw, calls, revocations, deletes, rs, au, relay>>

\* redis.setex(..).await.inspect_err(..)? fails: the snapshot is written or
\* not, and the call returns the error.
SetexFails(r, written) ==
    LET q == req[r]
        key == permission_for_login_id(q.login_id)
        snapshot == NewSnapshot(q.workspace_permissions, now)
    IN
    /\ q.pc = "setex"
    /\ redis' = IF written
                THEN SetEx(redis, key, CACHED_PERMISSIONS_VALIDITY, snapshot, now)
                ELSE redis
    /\ req' = [req EXCEPT ![r] = ReturnErr(Faulted(q))]
    /\ UNCHANGED <<now, resource, dw, calls, revocations, deletes, rs, au, relay>>

\* The slot of the calls made one after the other.
FirstSlot == {r \in Requests : \A other \in Requests : r <= other}

\* Calls made one after the other, delete_workspace and the other writers,
\* with stores that can fail any operation of a call.
NextFaults ==
    \/ \E r \in FirstSlot, l \in Logins : Call(r, l)
    \/ \E r \in FirstSlot :
          \/ ReqStep(r)
          \/ ReadFails(r)
          \/ \E deleted \in BOOLEAN : DelFails(r, deleted)
          \/ QueryFails(r)
          \/ \E written \in BOOLEAN : SetexFails(r, written)
    \/ \E w \in PathWorkspaceIds, u \in Users : DwCall(w, u)
    \/ DwSelect
    \/ DwCount
    \/ DwUpdate
    \/ DwSetex
    \/ \E key \in OtherRevocationKeys : WriteRevocation(key)
    \/ Tick

SpecFaults == Init /\ [][NextFaults]_vars

\* ------------------------------------------ delete_workspace on its own

\* delete_workspace requests one after the other, one more than Spec allows,
\* with a key-value store that can fail the setex.
NextDelete ==
    \/ \E w \in PathWorkspaceIds, u \in Users : DwCallUpTo(MaxDeletes + 1, w, u)
    \/ DwSelect
    \/ DwCount
    \/ DwUpdate
    \/ DwSetex
    \/ \E written \in BOOLEAN : DwSetexFails(written)
    \/ Tick

SpecDelete == Init /\ [][NextDelete]_vars

\* ------------------------------- a revocation timestamp written twice

\* Calls one after the other, with one more write of a login revocation
\* timestamp and one more delete_workspace request of a super admin than
\* Spec allows, so that a key can be written again while a call is between
\* its get and its del.
NextRewrite ==
    \/ \E r \in FirstSlot, l \in Logins : Call(r, l)
    \/ \E r \in FirstSlot :
          \/ GetSnapshot(r)
          \/ CheckUser(r)
          \/ CheckLogin(r)
          \/ DelLogin(r)
          \/ CheckWorkspace(r)
          \/ DelWorkspace(r)
          \/ CheckGlobal(r)
          \/ Query1(r)
          \/ Query2(r)
          \/ Query3(r)
          \/ WriteSnapshot(r)
    \/ \E w \in Workspaces : DwCallUpTo(MaxDeletes + 1, w, workspace[w].super_admin_id)
    \/ DwSelect
    \/ DwCount
    \/ DwUpdate
    \/ DwSetex
    \/ \E l \in Logins :
          WriteRevocationUpTo(MaxRevocations + 1, login_id_revocation_timestamp(l))
    \/ Tick

SpecRewrite == Init /\ [][NextRewrite]_vars

\* ------------------------------------- the cache over the life of a marker

\* The instant by which a revocation timestamp written after a snapshot has
\* run out.
MaxExpiryTime == (CACHED_PERMISSIONS_VALIDITY + RevocationTtl) * TicksPerSec

\* The cache and delete_workspace alone, followed until the revocation
\* timestamps have expired: no other handler writes a revocation timestamp, so
\* the deletes of the login and the global timestamp are never reached.
NextExpiry ==
    \/ \E r \in Requests, l \in Logins : Call(r, l)
    \/ \E r \in Requests :
          \/ GetSnapshot(r)
          \/ CheckUser(r)
          \/ CheckLogin(r)
          \/ CheckWorkspace(r)
          \/ DelWorkspace(r)
          \/ CheckGlobal(r)
          \/ Query1(r)
          \/ Query2(r)
          \/ Query3(r)
          \/ WriteSnapshot(r)
    \/ \E w \in PathWorkspaceIds, u \in Users : DwCall(w, u)
    \/ DwSelect
    \/ DwCount
    \/ DwUpdate
    \/ DwSetex
    \/ TickUntil(MaxExpiryTime)

SpecExpiry == Init /\ [][NextExpiry]_vars

\* ============================================== the resolver over any rows

\* The rows a rule query can return.
RuleRows ==
    [workspace_id : Workspaces, resource_id : Resources, permission_id : Permissions]

\* A resolver run about to start on the rows the three queries return.  The
\* first query is SELECT DISTINCT over one column, so its rows form a set; the
\* store returns the rows of a query in an order of its choosing.
StartRs(super_admins, excludes, includes) ==
    [input |-> [super_admins |-> super_admins, excludes |-> excludes,
                includes |-> includes],
     todo1 |-> super_admins, todo2 |-> excludes, todo3 |-> includes,
     workspace_permissions |-> <<>>, pass2 |-> <<>>]

InitResolver ==
    /\ now = 0
    /\ resource = InitResource
    /\ redis = <<>>
    /\ req = [r \in Requests |-> IdleReq]
    /\ dw = IdleDw
    /\ calls = 0
    /\ revocations = 0
    /\ deletes = 0
    /\ au = IdleAu
    /\ relay = IdleRelay
    /\ \E super_admins \in SUBSET Workspaces :
       \E excludes \in {S \in SUBSET RuleRows : Cardinality(S) <= MaxRuleRows} :
       \E includes \in {S \in SUBSET RuleRows : Cardinality(S) <= MaxRuleRows} :
            rs = StartRs(super_admins, excludes, includes)

\* The for_each of the first query takes its next row.
SuperAdminRow(workspace_id) ==
    /\ workspace_id \in rs.todo1
    /\ rs' = [rs EXCEPT !.todo1 = @ \ {workspace_id},
                        !.workspace_permissions = InsertSuperAdmins(@, <<workspace_id>>),
                        !.pass2 = InsertSuperAdmins(@, <<workspace_id>>)]
    /\ UNCHANGED <<now, resource, redis, req, dw, calls, revocations, deletes, au, relay>>

\* The for_each of the second query takes its next row.
ExcludeRow(row) ==
    /\ rs.todo1 = {}
    /\ row \in rs.todo2
    /\ rs' = [rs EXCEPT !.todo2 = @ \ {row},
                        !.workspace_permissions = InsertExclude(@, row),
                        !.pass2 = InsertExclude(@, row)]
    /\ UNCHANGED <<now, resource, redis, req, dw, calls, revocations, deletes, au, relay>>

\* The for_each of the third query takes its next row.
IncludeRow(row) ==
    /\ rs.todo1 = {}
    /\ rs.todo2 = {}
    /\ row \in rs.todo3
    /\ rs' = [rs EXCEPT !.todo3 = @ \ {row},
                        !.workspace_permissions = InsertInclude(@, row)]
    /\ UNCHANGED <<now, resource, redis, req, dw, calls, revocations, deletes, au, relay>>

NextResolver ==
    \/ \E workspace_id \in Workspaces : SuperAdminRow(workspace_id)
    \/ \E row \in RuleRows : ExcludeRow(row)
    \/ \E row \in RuleRows : IncludeRow(row)

SpecResolver == InitResolver /\ [][NextResolver]_vars

\* ================================================================== claims

Done(r) == req[r].pc = "done"
\* The call found a snapshot under the login's key.
Hit(r) == req[r].data # <<>>
\* The call ran the three queries of the resolver.
Resolved(r) == req[r].queries = 3
\* The indices of the revocation keys the call read as applicable.
RevokedReads(r) == {i \in DOMAIN req[r].reads : req[r].reads[i].revoked}
SawRevoked(r) == RevokedReads(r) # {}
\* The call returned the grant set of the snapshot it read, without resolving.
ReturnedCached(r) ==
    /\ req[r].queries = 0
    /\ req[r].wrote = <<>>
    /\ req[r].result = <<req[r].data[1].permission>>
\* The call resolved, wrote a snapshot and returned the resolved grant set.
ReturnedFresh(r) ==
    /\ Resolved(r)
    /\ req[r].wrote # <<>>
    /\ req[r].result = <<req[r].wrote[1].permission>>
Scope(key) == key[1]

\* C1: a call that finds a snapshot and reads a revocation timestamp (user,
\* login, workspace of the snapshot, or global) greater than the snapshot's
\* creation_time treats the snapshot as a miss: it resolves, overwrites the
\* snapshot and does not return the cached grant set.
C1_StaleHitIsMiss ==
    \A r \in Requests :
        (Done(r) /\ Hit(r) /\ SawRevoked(r)) => (ReturnedFresh(r) /\ ~ReturnedCached(r))

\* The call read the revocation key of a workspace that was stale when it read
\* the snapshot.
ReadStaleWorkspace(r) ==
    \E i \in DOMAIN req[r].reads :
        \E w \in req[r].stale :
            req[r].reads[i].key = workspace_id_revocation_timestamp(w)

\* C2: once delete_workspace has written the revocation timestamp of W, every
\* call that then reads a snapshot holding W created before that timestamp
\* resolves again, whichever login it is for; a call that reads no applicable
\* timestamp returns the snapshot unchanged.
C2_DeletedWorkspaceInvalidates ==
    \A r \in Requests :
        /\ (Done(r) /\ Hit(r) /\ ReadStaleWorkspace(r)) => ReturnedFresh(r)
        /\ (Done(r) /\ Hit(r) /\ ~SawRevoked(r)) => ReturnedCached(r)

\* C3: a snapshot is accepted (returned without the resolver) exactly when no
\* revocation timestamp read for it is greater than its creation_time.
C3_AcceptedIffNotRevoked ==
    \A r \in Requests :
        (Done(r) /\ Hit(r)) => (ReturnedCached(r) <=> ~SawRevoked(r))

\* C4: a call that reads an applicable login or workspace revocation timestamp
\* resolves once, overwrites the snapshot once and deletes the timestamp.
C4_MarkerForcesOneResolution ==
    \A r \in Requests :
        \A i \in RevokedReads(r) :
            (Done(r) /\ Scope(req[r].reads[i].key) \in {"login", "workspace"})
                => /\ ReturnedFresh(r)
                   /\ req[r].dels = <<req[r].reads[i].key>>
                   /\ req[r].reads[i].key \notin DOMAIN redis
                        \/ redis[req[r].reads[i].key].exp > now

\* C5: no call deletes a user revocation timestamp or the global one.
C5_UserAndGlobalKept ==
    \A r \in Requests :
        \A i \in DOMAIN req[r].dels : Scope(req[r].dels[i]) \notin {"user", "global"}

\* The login and workspace revocation keys the call read as applicable.
ObservedSingleUse(r) ==
    {req[r].reads[i].key : i \in
        {j \in RevokedReads(r) : Scope(req[r].reads[j].key) \in {"login", "workspace"}}}
\* The login and workspace revocation keys the call deleted.
DeletedSingleUse(r) ==
    {req[r].dels[i] : i \in
        {j \in DOMAIN req[r].dels : Scope(req[r].dels[j]) \in {"login", "workspace"}}}
\* The call r performs the step from pc `from` to pc `to`.
Moves(r, from, to) == req[r].pc = from /\ req'[r].pc = to

\* C6: a call deletes a login or workspace revocation key if and only if it
\* read that key as applicable: what it has deleted is among what it observed,
\* a finished call has deleted all it observed, and a step that is not the
\* passing of time removes such a key from Redis only as the delete of a call
\* whose last read found that key applicable.
C6_DeletedIffObserved ==
    /\ [](\A r \in Requests :
            /\ DeletedSingleUse(r) \subseteq ObservedSingleUse(r)
            /\ Done(r) => ObservedSingleUse(r) \subseteq DeletedSingleUse(r))
    /\ [][\A key \in DOMAIN redis :
            (Scope(key) \in {"login", "workspace"} /\ key \notin DOMAIN redis' /\ now' = now)
                => \E r \in Requests :
                    /\ req[r].reads # <<>>
                    /\ req[r].reads[Len(req[r].reads)] = [key |-> key, revoked |-> TRUE]
                    /\ req'[r].dels = Append(req[r].dels, key)]_vars

\* C6 witness: a finished call that read the login key as present but not
\* applicable and left it in Redis, then read a workspace key as applicable and
\* deleted it.
C6_Witness ==
    \E r \in Requests :
        LET login == login_id_revocation_timestamp(req[r].login_id)
            ws == workspace_id_revocation_timestamp(1)
        IN  /\ Done(r)
            /\ Len(req[r].reads) = 3
            /\ req[r].reads[2] = [key |-> login, revoked |-> FALSE]
            /\ login \in DOMAIN redis
            /\ req[r].reads[3] = [key |-> ws, revoked |-> TRUE]
            /\ req[r].dels = <<ws>>
            /\ ws \notin DOMAIN redis

\* The number of workspaces of the snapshot the call read.
WorkspaceCount(r) == Cardinality(DOMAIN req[r].data[1].permission)

\* C7: on a hit the revocation keys are read in the order user, login, the
\* workspaces of the snapshot (each once), global; no key is read after a key
\* read as applicable, all are read when none is applicable, and only the key
\* read as applicable is deleted.
C7_FixedOrderShortCircuit ==
    \A r \in Requests :
        LET q == req[r]
            n == Len(q.reads)
        IN  /\ ~Hit(r) => (q.reads = <<>> /\ q.dels = <<>>)
            /\ Hit(r) =>
                /\ n <= WorkspaceCount(r) + 3
                /\ n >= 1 => q.reads[1].key = user_id_revocation_timestamp(q.user_id)
                /\ n >= 2 => q.reads[2].key = login_id_revocation_timestamp(q.login_id)
                /\ \A i \in 3..n :
                    IF i <= WorkspaceCount(r) + 2
                    THEN /\ Scope(q.reads[i].key) = "workspace"
                         /\ q.reads[i].key[2] \in DOMAIN q.data[1].permission
                         /\ \A j \in 3..(i - 1) : q.reads[j].key # q.reads[i].key
                    ELSE q.reads[i].key = global_revocation_timestamp
                /\ \A i \in 1..(n - 1) : ~q.reads[i].revoked
                /\ (Done(r) /\ ~SawRevoked(r)) => n = WorkspaceCount(r) + 3
                /\ \A i \in DOMAIN q.dels : q.dels[i] = q.reads[n].key /\ q.reads[n].revoked

\* C7 witness: a finished call that read the login key as applicable and
\* stopped there, while the revocation key of a workspace of its snapshot was
\* in Redis, unread and not deleted.
C7_Witness ==
    \E r \in Requests :
        /\ Done(r)
        /\ Len(req[r].reads) = 2
        /\ req[r].reads[2].revoked
        /\ 1 \in DOMAIN req[r].data[1].permission
        /\ workspace_id_revocation_timestamp(1) \in DOMAIN redis

\* C8: no call writes a snapshot that holds a workspace whose deletion none of
\* its queries saw while the revocation timestamp of that deletion is already
\* in Redis and not after the snapshot's creation_time.
C8_NoStaleSnapshotPastMarker ==
    [][\A r \in Requests :
        Moves(r, "setex", "done") =>
            ~\E w \in DOMAIN req[r].workspace_permissions :
                /\ w \in DeletedResources
                /\ w \notin req[r].seen
                /\ workspace_id_revocation_timestamp(w) \in DOMAIN redis
                /\ ~Applicable(req'[r].wrote[1].creation_time,
                               FromUnixTimestamp(
                                   redis[workspace_id_revocation_timestamp(w)].value))]_vars

\* C9: every finished call that missed has run the resolver and written a
\* snapshot, also when another call for the same login missed at the same
\* time; a step of one call leaves the other calls where they are; and each
\* write leaves its own snapshot under the key, so the later write wins.
C9_ConcurrentMisses ==
    /\ [](\A r \in Requests :
            (Done(r) /\ ~Hit(r)) => ReturnedFresh(r))
    /\ [][\A r \in Requests :
            /\ req'[r] # req[r] => \A other \in Requests \ {r} : req'[other] = req[other]
            /\ Moves(r, "setex", "done") =>
                redis'[permission_for_login_id(req[r].login_id)].value = req'[r].wrote[1]]_vars

\* C9 witness: two finished calls for one login that both missed and wrote
\* one tick apart, less than the TTL of the first snapshot, so that the
\* second call missed before the first wrote; the snapshot in Redis is the
\* later one.
C9_Witness ==
    /\ Done(1) /\ Done(2)
    /\ ~Hit(1) /\ ~Hit(2)
    /\ req[1].login_id = req[2].login_id
    /\ ReturnedFresh(1) /\ ReturnedFresh(2)
    /\ req[2].wrote[1].creation_time = req[1].wrote[1].creation_time + 1
    /\ permission_for_login_id(req[1].login_id) \in DOMAIN redis
    /\ redis[permission_for_login_id(req[1].login_id)].value = req[2].wrote[1]

\* The grant sets of the two logins for the rows of this model.
ExpectedGrants(login_id) ==
    IF login_id = 1
    THEN (1 :> SuperAdmin) @@ (2 :> SuperAdmin)
    ELSE (1 :> Member((1 :> Exclude({3})) @@ (2 :> Include({3}))))

\* C10: a call that finds no snapshot runs the three queries, writes under
\* the login's key the snapshot of exactly the resolved grant set with the
\* current time as creation_time and the validity window as TTL, and returns
\* that grant set.
C10_MissResolvesAndWrites ==
    /\ [](\A r \in Requests :
            (Done(r) /\ ~Hit(r)) =>
                /\ ReturnedFresh(r)
                /\ req[r].reads = <<>>
                /\ req[r].result = <<ExpectedGrants(req[r].login_id)>>)
    /\ [][\A r \in Requests :
            Moves(r, "setex", "done") =>
                /\ req'[r].result = <<req[r].workspace_permissions>>
                /\ redis' = [k \in DOMAIN redis \cup {permission_for_login_id(req[r].login_id)} |->
                               IF k = permission_for_login_id(req[r].login_id)
                               THEN [value |-> [permission |-> req[r].workspace_permissions,
                                                creation_time |-> now],
                                     exp |-> now + CACHED_PERMISSIONS_VALIDITY * TicksPerSec]
                               ELSE redis[k]]]_vars

\* C10 witness: a finished call for login 2 that missed after the clock had
\* advanced and whose snapshot is in Redis.
C10_Witness ==
    \E r \in Requests :
        /\ Done(r) /\ ~Hit(r)
        /\ req[r].login_id = 2
        /\ req[r].wrote # <<>>
        /\ req[r].wrote[1].creation_time > 0
        /\ permission_for_login_id(2) \in DOMAIN redis
        /\ redis[permission_for_login_id(2)].value = req[r].wrote[1]

\* ==================================================== AuthenticationService

\* An API token string is a sequence of symbols: "patrv1" stands for the six
\* characters of the prefix before its dot, "3" and "7" for the text of the
\* UUIDs 3 and 7, "." for the dot.
TokenSymbols == {"patrv1", ".", "3", "7"}
TokenStrings == UNION {[1..n -> TokenSymbols] : n \in 0..MaxTokenLen}
ClientIps == {1, 2}

\* str::strip_prefix.
StripPrefix(str, prefix) ==
    IF Len(str) >= Len(prefix) /\ SubSeq(str, 1, Len(prefix)) = prefix
    THEN <<SubSeq(str, Len(prefix) + 1, Len(str))>>
    ELSE <<>>

\* str::split_once: the parts before and after the first delimiter.
SplitOnce(str, delimiter) ==
    LET at == {i \in DOMAIN str : str[i] = delimiter} IN
    IF at = {} THEN <<>>
    ELSE LET i == CHOOSE x \in at : \A y \in at : x <= y
         IN  <<<<SubSeq(str, 1, i - 1), SubSeq(str, i + 1, Len(str))>>>>

\* Uuid::parse_str: the text of one UUID and nothing else.
UuidParse(str) ==
    IF Len(str) = 1 /\ str[1] \in {"3", "7"}
    THEN <<IF str[1] = "3" THEN 3 ELSE 7>>
    ELSE <<>>

\* ParseApiToken that goes on with the whole string when the prefix is absent.
ParseApiTokenNoPrefix(token) ==
    LET malformed == [ok |-> FALSE, refresh_token |-> 0, login_id |-> 0]
        stripped == StripPrefix(token, <<"patrv1", ".">>)
        rest == IF stripped = <<>> THEN token ELSE stripped[1]
        split == SplitOnce(rest, ".")
    IN  IF split = <<>> THEN malformed
        ELSE LET refresh_token == UuidParse(split[1][1])
                 login_id == UuidParse(split[1][2])
             IN  IF refresh_token = <<>> THEN malformed
                 ELSE IF login_id = <<>> THEN malformed
                 ELSE [ok |-> TRUE, refresh_token |-> refresh_token[1],
                       login_id |-> login_id[1]]

\* ParseApiToken that takes the first segment for the login id and the second
\* for the secret.
ParseApiTokenSwapped(token) ==
    LET malformed == [ok |-> FALSE, refresh_token |-> 0, login_id |-> 0]
        stripped == StripPrefix(token, <<"patrv1", ".">>)
    IN  IF stripped = <<>> THEN malformed
        ELSE LET split == SplitOnce(stripped[1], ".") IN
             IF split = <<>> THEN malformed
             ELSE LET login_id == UuidParse(split[1][1])
                      refresh_token == UuidParse(split[1][2])
                  IN  IF refresh_token = <<>> THEN malformed
                      ELSE IF login_id = <<>> THEN malformed
                      ELSE [ok |-> TRUE, refresh_token |-> refresh_token[1],
                            login_id |-> login_id[1]]

\* The parse of the API token: Ok with (refresh_token, login_id), or the error.
ParseApiToken(token) ==
    LET malformed == [ok |-> FALSE, refresh_token |-> 0, login_id |-> 0]
        stripped == StripPrefix(token, <<"patrv1", ".">>)
    IN  IF stripped = <<>> THEN malformed
        ELSE LET split == SplitOnce(stripped[1], ".") IN
             IF split = <<>> THEN malformed
             ELSE LET refresh_token == UuidParse(split[1][1])
                      login_id == UuidParse(split[1][2])
                  IN  IF refresh_token = <<>> THEN malformed
                      ELSE IF login_id = <<>> THEN malformed
                      ELSE [ok |-> TRUE, refresh_token |-> refresh_token[1],
                            login_id |-> login_id[1]]

\* The stored hash: an Argon2 hash of a secret, or text that is no hash.
TokenHashes == {<<"argon2", 7>>, <<"garbage">>}
\* PasswordHash::new.
PasswordHashNew(token_hash) == IF token_hash[1] = "argon2" THEN <<token_hash>> ELSE <<>>
\* Argon2::verify_password(..).is_ok().
VerifyPassword(refresh_token, password_hash) == password_hash[2] = refresh_token

\* The instants a token row names.
TokenTimes == {2}
OptionOf(S) == {<<>>} \cup {<<x>> : x \in S}

\* The rows the user_api_token table can hold for token 3; an allow-list is a
\* list of networks, a network the addresses in it.
TokenRows ==
    [token_id : TokenLogins, user_id : {2}, token_hash : TokenHashes,
     token_nbf : OptionOf(TokenTimes), token_exp : OptionOf(TokenTimes),
     allowed_ips : OptionOf({{{1}}}), revoked : OptionOf(TokenTimes)]

\* user_api_token INNER JOIN user_login INNER JOIN "user" WHERE token_id = $1
\* AND login_type = 'api_token', fetch_optional.
SelectApiToken(table, login_id) ==
    IF /\ table # <<>>
       /\ table[1].token_id = login_id
       /\ login_id \in DOMAIN user_login
       /\ user_login[login_id].login_type = "api_token"
       /\ table[1].user_id \in Users
    THEN table ELSE <<>>

Fail(q, error) == [q EXCEPT !.pc = "done", !.result = <<error>>]
Checked(q, check, passed) ==
    [q EXCEPT !.checks = Append(@, [check |-> check, passed |-> passed])]

\* A request with an API token arrives at a service of ClientType::ApiToken;
\* the token is parsed before the first await.
ApiTokenCall(client_ip) ==
    /\ au.pc = "idle"
    /\ \E token \in TokenStrings :
        LET q == [au EXCEPT !.client_type = "ApiToken", !.token = token,
                            !.client_ip = client_ip, !.arrived = now]
            parsed == ParseApiToken(token)
        IN  au' = IF ~parsed.ok THEN Fail(q, "MalformedApiToken")
                  ELSE [q EXCEPT !.pc = "fetch",
                                 !.refresh_token = parsed.refresh_token,
                                 !.login_id = parsed.login_id]
    /\ UNCHANGED <<now, resource, redis, req, dw, calls, revocations, deletes, rs, relay>>

\* The outcome of the token-row fetch.
AfterFetch(q, row) ==
    IF row = <<>> THEN Fail(q, "AuthorizationTokenInvalid")
    ELSE [q EXCEPT !.pc = "nbf", !.row = row]

\* The fetch of the token row.
FetchApiToken ==
    LET q == [au EXCEPT !.store_ops =
                Append(@, [op |-> "select_user_api_token", login_id |-> au.login_id,
                           user_id |-> 0])]
    IN
    /\ au.pc = "fetch"
    /\ au' = [AfterFetch(q, SelectApiToken(au.user_api_token, au.login_id))
                EXCEPT !.twin = AfterFetch(q, <<>>).result]
    /\ UNCHANGED <<now, resource, redis, req, dw, calls, revocations, deletes, rs, relay>>

\* if let Some(nbf) = token.token_nbf { if now_utc() < nbf { .. } }
CheckNbf ==
    LET failed == au.row[1].token_nbf # <<>> /\ now < au.row[1].token_nbf[1] IN
    /\ au.pc = "nbf"
    /\ au' = IF failed THEN Fail(Checked(au, "nbf", FALSE), "AuthorizationTokenInvalid")
             ELSE [Checked(au, "nbf", TRUE) EXCEPT !.pc = "exp"]
    /\ UNCHANGED <<now, resource, redis, req, dw, calls, revocations, deletes, rs, relay>>

\* An expiry check that rejects the token at the instant of its expiry.
CheckExpStrict ==
    LET failed == au.row[1].token_exp # <<>> /\ now >= au.row[1].token_exp[1] IN
    /\ au.pc = "exp"
    /\ au' = IF failed THEN Fail(Checked(au, "exp", FALSE), "AuthorizationTokenInvalid")
             ELSE [Checked(au, "exp", TRUE) EXCEPT !.pc = "revoked"]
    /\ UNCHANGED <<now, resource, redis, req, dw, calls, revocations, deletes, rs, relay>>

\* if let Some(exp) = token.token_exp { if now_utc() > exp { .. } }
CheckExp ==
    LET failed == au.row[1].token_exp # <<>> /\ now > au.row[1].token_exp[1] IN
    /\ au.pc = "exp"
    /\ au' = IF failed THEN Fail(Checked(au, "exp", FALSE), "AuthorizationTokenInvalid")
             ELSE [Checked(au, "exp", TRUE) EXCEPT !.pc = "revoked"]
    /\ UNCHANGED <<now, resource, redis, req, dw, calls, revocations, deletes, rs, relay>>

\* CheckRevoked after which the secret is verified at once.
CheckRevokedSkipIp ==
    LET failed == au.row[1].revoked # <<>> /\ now > au.row[1].revoked[1] IN
    /\ au.pc = "revoked"
    /\ au' = IF failed
             THEN Fail(Checked(au, "revoked", FALSE), "AuthorizationTokenInvalid")
             ELSE [Checked(au, "revoked", TRUE) EXCEPT !.pc = "hash"]
    /\ UNCHANGED <<now, resource, redis, req, dw, calls, revocations, deletes, rs, relay>>

\* if let Some(revoked) = token.revoked { if now_utc() > revoked { .. } }
CheckRevoked ==
    LET failed == au.row[1].revoked # <<>> /\ now > au.row[1].revoked[1] IN
    /\ au.pc = "revoked"
    /\ au' = IF failed
             THEN Fail(Checked(au, "revoked", FALSE), "AuthorizationTokenInvalid")
             ELSE [Checked(au, "revoked", TRUE) EXCEPT !.pc = "ip"]
    /\ UNCHANGED <<now, resource, redis, req, dw, calls, revocations, deletes, rs, relay>>

\* allowed_ips.iter().any(|ip_network| ip_network.contains(req.client_ip))
IpAllowed(allowed_ips, client_ip) ==
    allowed_ips = <<>> \/ \E ip_network \in allowed_ips[1] : client_ip \in ip_network

\* The check of the IP allow-list.
CheckIp ==
    /\ au.pc = "ip"
    /\ au' = IF ~IpAllowed(au.row[1].allowed_ips, au.client_ip)
             THEN Fail(Checked(au, "ip", FALSE), "DisallowedIpAddressForApiToken")
             ELSE [Checked(au, "ip", TRUE) EXCEPT !.pc = "hash"]
    /\ UNCHANGED <<now, resource, redis, req, dw, calls, revocations, deletes, rs, relay>>

\* A stored hash that cannot be parsed taken for a secret that does not verify.
CheckSecretHashInvalid ==
    LET password_hash == PasswordHashNew(au.row[1].token_hash) IN
    /\ au.pc = "hash"
    /\ au' = IF password_hash = <<>>
             THEN Fail(Checked(au, "hash", FALSE), "AuthorizationTokenInvalid")
             ELSE IF ~VerifyPassword(au.refresh_token, password_hash[1])
             THEN Fail(Checked(au, "secret", FALSE), "AuthorizationTokenInvalid")
             ELSE [Checked(au, "secret", TRUE) EXCEPT !.pc = "permissions"]
    /\ UNCHANGED <<now, resource, redis, req, dw, calls, revocations, deletes, rs, relay>>

\* PasswordHash::new(&token.token_hash), then verify_password(refresh_token).
CheckSecret ==
    LET password_hash == PasswordHashNew(au.row[1].token_hash) IN
    /\ au.pc = "hash"
    /\ au' = IF password_hash = <<>>
             THEN Fail(Checked(au, "hash", FALSE), "server_error")
             ELSE IF ~VerifyPassword(au.refresh_token, password_hash[1])
             THEN Fail(Checked(au, "secret", FALSE), "AuthorizationTokenInvalid")
             ELSE [Checked(au, "secret", TRUE) EXCEPT !.pc = "permissions"]
    /\ UNCHANGED <<now, resource, redis, req, dw, calls, revocations, deletes, rs, relay>>

\* ------------------------------------------------------ the session token

JWT_ISSUER == "JWT_ISSUER"
PATR_JWT_AUDIENCE == "PATR_JWT_AUDIENCE"

\* web_login rows: the session of login 1 expires at 3, that of login 2 at 1.
web_login ==
    [l \in Logins |-> [login_id |-> l, token_expiry |-> IF l = 1 THEN 3 ELSE 1]]

\* AccessTokenData; jti is a UUID, which may carry a timestamp.
AccessTokenDatas ==
    [iss : {JWT_ISSUER, "other"}, sub : Logins \cup TokenLogins,
     aud : {{PATR_JWT_AUDIENCE, "other"}, {"other"}},
     exp : {3}, nbf : {1}, jti : OptionOf({0, 1})]

\* The session tokens presented: signed with the server's secret, or not.
Jwts ==
    [signature : {"valid"}, claims : AccessTokenDatas]
        \cup {[signature |-> "invalid",
                claims |-> [iss |-> JWT_ISSUER, sub |-> 1, aud |-> {PATR_JWT_AUDIENCE},
                            exp |-> 3, nbf |-> 1, jti |-> <<0>>]]}

\* jsonwebtoken::decode with validate_exp, validate_nbf, validate_aud off.
Decode(jwt) == IF jwt.signature = "valid" THEN <<jwt.claims>> ELSE <<>>

\* JwtCall without the comparison of the issuer.
JwtCallNoIss(client_ip) ==
    /\ au.pc = "idle"
    /\ \E jwt \in Jwts :
        LET q == [au EXCEPT !.client_type = "WebDashboard", !.jwt = <<jwt>>,
                            !.client_ip = client_ip, !.arrived = now]
            decoded == Decode(jwt)
        IN  au' = IF decoded = <<>>
                  THEN Fail(Checked(q, "decode", FALSE), "MalformedAccessToken")
                  ELSE [Checked(q, "decode", TRUE) EXCEPT !.pc = "jti",
                                                          !.claims = decoded]
    /\ UNCHANGED <<now, resource, redis, req, dw, calls, revocations, deletes, rs, relay>>

\* A request with a session token arrives at a service of
\* ClientType::WebDashboard; the token is decoded and its issuer compared
\* before the first read of the clock.
JwtCall(client_ip) ==
    /\ au.pc = "idle"
    /\ \E jwt \in Jwts :
        LET q == [au EXCEPT !.client_type = "WebDashboard", !.jwt = <<jwt>>,
                            !.client_ip = client_ip, !.arrived = now]
            decoded == Decode(jwt)
        IN  au' = IF decoded = <<>>
                  THEN Fail(Checked(q, "decode", FALSE), "MalformedAccessToken")
                  ELSE IF decoded[1].iss # JWT_ISSUER
                  THEN Fail(Checked(Checked(q, "decode", TRUE), "iss", FALSE),
                            "MalformedAccessToken")
                  ELSE [Checked(Checked(q, "decode", TRUE), "iss", TRUE)
                           EXCEPT !.pc = "jti", !.claims = decoded]
    /\ UNCHANGED <<now, resource, redis, req, dw, calls, revocations, deletes, rs, relay>>

\* An age check that rejects an identifier exactly as old as the window.
CheckJtiInclusive ==
    LET jti == au.claims[1].jti IN
    /\ au.pc = "jti"
    /\ au' = IF jti = <<>>
             THEN Fail(Checked(au, "jti", FALSE), "MalformedAccessToken")
             ELSE IF now - jti[1] >= REFRESH_TOKEN_VALIDITY * TicksPerSec
             THEN Fail(Checked(au, "jti", FALSE), "AuthorizationTokenInvalid")
             ELSE [Checked(au, "jti", TRUE) EXCEPT !.pc = "jwt_nbf"]
    /\ UNCHANGED <<now, resource, redis, req, dw, calls, revocations, deletes, rs, relay>>

\* now_utc().sub(jti.get_timestamp().ok_or(..)?) > REFRESH_TOKEN_VALIDITY
CheckJti ==
    LET jti == au.claims[1].jti IN
    /\ au.pc = "jti"
    /\ au' = IF jti = <<>>
             THEN Fail(Checked(au, "jti", FALSE), "MalformedAccessToken")
             ELSE IF now - jti[1] > REFRESH_TOKEN_VALIDITY * TicksPerSec
             THEN Fail(Checked(au, "jti", FALSE), "AuthorizationTokenInvalid")
             ELSE [Checked(au, "jti", TRUE) EXCEPT !.pc = "jwt_nbf"]
    /\ UNCHANGED <<now, resource, redis, req, dw, calls, revocations, deletes, rs, relay>>

\* if now_utc() < nbf
CheckJwtNbf ==
    /\ au.pc = "jwt_nbf"
    /\ au' = IF now < au.claims[1].nbf
             THEN Fail(Checked(au, "nbf", FALSE), "AuthorizationTokenInvalid")
             ELSE [Checked(au, "nbf", TRUE) EXCEPT !.pc = "jwt_exp"]
    /\ UNCHANGED <<now, resource, redis, req, dw, calls, revocations, deletes, rs, relay>>

\* if now_utc() > exp
CheckJwtExp ==
    /\ au.pc = "jwt_exp"
    /\ au' = IF now > au.claims[1].exp
             THEN Fail(Checked(au, "exp", FALSE), "AuthorizationTokenInvalid")
             ELSE [Checked(au, "exp", TRUE) EXCEPT !.pc = "web_login"]
    /\ UNCHANGED <<now, resource, redis, req, dw, calls, revocations, deletes, rs, relay>>

\* "user" INNER JOIN user_login INNER JOIN web_login WHERE login_id = $1 AND
\* login_type = 'web_login', fetch_optional.
SelectWebLogin(login_id) ==
    IF /\ login_id \in DOMAIN user_login
       /\ user_login[login_id].login_type = "web_login"
       /\ user_login[login_id].user_id \in Users
       /\ login_id \in DOMAIN web_login
    THEN <<[id |-> user_login[login_id].user_id,
            token_expiry |-> web_login[login_id].token_expiry]>>
    ELSE <<>>

\* The fetch of the web login and its account.
FetchWebLogin ==
    LET q == [au EXCEPT !.store_ops =
                Append(@, [op |-> "select_web_login", login_id |-> au.claims[1].sub,
                           user_id |-> 0])]
        user == SelectWebLogin(au.claims[1].sub)
    IN
    /\ au.pc = "web_login"
    /\ au' = IF user = <<>> THEN Fail(Checked(q, "web_login", FALSE),
                                      "AuthorizationTokenInvalid")
             ELSE [Checked(q, "web_login", TRUE) EXCEPT !.pc = "token_expiry",
                                                        !.user = user]
    /\ UNCHANGED <<now, resource, redis, req, dw, calls, revocations, deletes, rs, relay>>

\* A request that goes on to the audience whatever the login's token_expiry.
CheckTokenExpiryIgnored ==
    /\ au.pc = "token_expiry"
    /\ au' = [Checked(au, "token_expiry", TRUE) EXCEPT !.pc = "aud"]
    /\ UNCHANGED <<now, resource, redis, req, dw, calls, revocations, deletes, rs, relay>>

\* if now_utc() > user.token_expiry
CheckTokenExpiry ==
    /\ au.pc = "token_expiry"
    /\ au' = IF now > au.user[1].token_expiry
             THEN Fail(Checked(au, "token_expiry", FALSE), "AuthorizationTokenInvalid")
             ELSE [Checked(au, "token_expiry", TRUE) EXCEPT !.pc = "aud"]
    /\ UNCHANGED <<now, resource, redis, req, dw, calls, revocations, deletes, rs, relay>>

\* An audience check that only logs a missing audience and goes on.
CheckAudWarnOnly ==
    /\ au.pc = "aud"
    /\ au' = [Checked(au, "aud", PATR_JWT_AUDIENCE \in au.claims[1].aud)
                EXCEPT !.pc = "permissions"]
    /\ UNCHANGED <<now, resource, redis, req, dw, calls, revocations, deletes, rs, relay>>

\* aud.into_iter().any(|item| item == PATR_JWT_AUDIENCE)
CheckAud ==
    /\ au.pc = "aud"
    /\ au' = IF PATR_JWT_AUDIENCE \notin au.claims[1].aud
             THEN Fail(Checked(au, "aud", FALSE), "MalformedAccessToken")
             ELSE [Checked(au, "aud", TRUE) EXCEPT !.pc = "permissions"]
    /\ UNCHANGED <<now, resource, redis, req, dw, calls, revocations, deletes, rs, relay>>

\* ------------------------------------------- permissions and inner service

\* The (login_id, user_id) handed to get_permissions_for_login_id.
PermissionArgs(q) ==
    IF q.client_type = "ApiToken"
    THEN [login_id |-> q.login_id, user_id |-> q.row[1].user_id]
    ELSE [login_id |-> q.claims[1].sub, user_id |-> q.user[1].id]

\* get_permissions_for_login_id(..).await, run to its end in one step: no
\* revocation timestamp is written under SpecAuth, so a hit returns the
\* snapshot's grant set and a miss resolves and writes a snapshot.
GetPermissions ==
    LET args == PermissionArgs(au)
        key == permission_for_login_id(args.login_id)
        hit == key \in DOMAIN redis
        workspace_permissions ==
            IF hit THEN redis[key].value.permission ELSE Resolve(args.login_id)
    IN
    /\ au.pc = "permissions"
    /\ redis' = IF hit THEN redis
                ELSE SetEx(redis, key, CACHED_PERMISSIONS_VALIDITY,
                           NewSnapshot(workspace_permissions, now), now)
    /\ au' = [au EXCEPT !.pc = "inner",
                        !.permissions = <<workspace_permissions>>,
                        !.store_ops =
                            Append(@, [op |-> "get_permissions_for_login_id",
                                       login_id |-> args.login_id,
                                       user_id |-> args.user_id])]
    /\ UNCHANGED <<now, resource, req, dw, calls, revocations, deletes, rs, relay>>

\* RequestUserData::builder()..build() and inner.call(req).await.
CallInner ==
    LET args == PermissionArgs(au) IN
    /\ au.pc = "inner"
    /\ au' = [au EXCEPT !.pc = "done", !.result = <<"Ok">>,
                        !.inner = <<[id |-> args.user_id, login_id |-> args.login_id,
                                     permissions |-> au.permissions[1]]>>]
    /\ UNCHANGED <<now, resource, redis, req, dw, calls, revocations, deletes, rs, relay>>

\* The store holds any token row for token 3, or none.
InitAuth ==
    /\ now = 0
    /\ resource = InitResource
    /\ redis = <<>>
    /\ req = [r \in Requests |-> IdleReq]
    /\ dw = IdleDw
    /\ calls = 0
    /\ revocations = 0
    /\ deletes = 0
    /\ rs = IdleRs
    /\ relay = IdleRelay
    /\ \E table \in OptionOf(TokenRows) : au = [IdleAu EXCEPT !.user_api_token = table]

NextAuth ==
    \/ \E client_ip \in ClientIps : ApiTokenCall(client_ip)
    \/ FetchApiToken
    \/ CheckNbf
    \/ CheckExp
    \/ CheckRevoked
    \/ CheckIp
    \/ CheckSecret
    \/ \E client_ip \in ClientIps : JwtCall(client_ip)
    \/ CheckJti
    \/ CheckJwtNbf
    \/ CheckJwtExp
    \/ FetchWebLogin
    \/ CheckTokenExpiry
    \/ CheckAud
    \/ GetPermissions
    \/ CallInner
    \/ Tick

SpecAuth == InitAuth /\ [][NextAuth]_vars

\* ========================================================= redis_publisher

DATABASE_CHANNEL == "DATABASE_CHANNEL"
Payloads == {1, 2}
\* What listener.recv() returns: Ok(notification) or Err(..).
Notification(payload) ==
    [ok |-> TRUE, channel |-> DATABASE_CHANNEL, payload |-> payload]
RecvError == [ok |-> FALSE, channel |-> "", payload |-> 0]

\* The store notifies the listener's channel.
Notify(payload) ==
    /\ relay.arrivals < MaxNotifications
    /\ relay' = [relay EXCEPT !.inbox = Append(@, Notification(payload)),
                              !.notified = Append(@, Notification(payload)),
                              !.arrivals = @ + 1]
    /\ UNCHANGED <<now, resource, redis, req, dw, calls, revocations, deletes, rs, au>>

\* The listener's connection fails: the next recv() returns an error.
ListenerFails ==
    /\ relay.arrivals < MaxNotifications
    /\ relay' = [relay EXCEPT !.inbox = Append(@, RecvError), !.arrivals = @ + 1]
    /\ UNCHANGED <<now, resource, redis, req, dw, calls, revocations, deletes, rs, au>>

\* SIGINT or SIGTERM reaches the process: exit_signal() completes.
ExitSignal ==
    /\ relay.exit_signal = "pending"
    /\ relay' = [relay EXCEPT !.exit_signal = "ready"]
    /\ UNCHANGED <<now, resource, redis, req, dw, calls, revocations, deletes, rs, au>>

\* A select that looks at the exit signal only once a notification is there.
SelectExitAfterRecv ==
    /\ relay.pc = "select"
    /\ relay.exit_signal = "ready"
    /\ relay.inbox # <<>>
    /\ relay' = [relay EXCEPT !.pc = "stopped", !.inbox = Tail(@)]
    /\ UNCHANGED <<now, resource, redis, req, dw, calls, revocations, deletes, rs, au>>

\* select(&mut exit_signal, recv()) returns Either::Left: the exit signal is
\* polled first and is ready; `break`, and run returns.
SelectExit ==
    /\ relay.pc = "select"
    /\ relay.exit_signal = "ready"
    /\ relay' = [relay EXCEPT !.pc = "stopped"]
    /\ UNCHANGED <<now, resource, redis, req, dw, calls, revocations, deletes, rs, au>>

\* The call redis.publish(message.channel(), message.payload()), issued.
PublishCall(message, exit_signal) ==
    [channel |-> message.channel, payload |-> message.payload,
     outcome |-> "pending", issued_after_exit |-> exit_signal = "ready",
     completed_after_exit |-> FALSE]

\* A relay that gives up at the first receive error.
ReceivedOrStop(q, item, rest) ==
    IF item.ok
    THEN [q EXCEPT !.pc = "publish", !.inbox = rest, !.message = <<item>>,
                   !.received = Append(@, item),
                   !.publish_calls = Append(@, PublishCall(item, q.exit_signal))]
    ELSE [q EXCEPT !.pc = "stopped", !.inbox = rest]

\* The relay after recv() returned item: an Ok(message) is published next, an
\* Err(..) is dropped.
Received(q, item, rest) ==
    IF item.ok
    THEN [q EXCEPT !.pc = "publish", !.inbox = rest, !.message = <<item>>,
                   !.received = Append(@, item),
                   !.publish_calls = Append(@, PublishCall(item, q.exit_signal))]
    ELSE [q EXCEPT !.inbox = rest]

\* A select that polls recv() before the exit signal.
SelectRecvFirst ==
    /\ relay.pc = "select"
    /\ relay.inbox # <<>>
    /\ relay' = Received(relay, Head(relay.inbox), Tail(relay.inbox))
    /\ UNCHANGED <<now, resource, redis, req, dw, calls, revocations, deletes, rs, au>>

\* A listener that hands over the newest notification first.
SelectRecvNewest ==
    LET n == Len(relay.inbox) IN
    /\ relay.pc = "select"
    /\ relay.exit_signal = "pending"
    /\ relay.inbox # <<>>
    /\ relay' = Received(relay, relay.inbox[n], SubSeq(relay.inbox, 1, n - 1))
    /\ UNCHANGED <<now, resource, redis, req, dw, calls, revocations, deletes, rs, au>>

\* select returns Either::Right((message, _)): the exit signal is pending and
\* recv() is ready.
SelectRecv ==
    /\ relay.pc = "select"
    /\ relay.exit_signal = "pending"
    /\ relay.inbox # <<>>
    /\ relay' = Received(relay, Head(relay.inbox), Tail(relay.inbox))
    /\ UNCHANGED <<now, resource, redis, req, dw, calls, revocations, deletes, rs, au>>

\* The call of redis.publish, answered.
Completed(call, ok, exit_signal) ==
    [call EXCEPT !.outcome = IF ok THEN "ok" ELSE "err",
                 !.completed_after_exit = exit_signal = "ready"]

\* A relay that gives up at the first publish that fails.
PublishOrStop(ok) ==
    LET n == Len(relay.publish_calls)
        q == [relay EXCEPT !.publish_calls[n] = Completed(@, ok, relay.exit_signal)]
    IN
    /\ relay.pc = "publish"
    /\ relay' = IF ok
                THEN [q EXCEPT !.pc = "select", !.message = <<>>,
                               !.published =
                                   Append(@, [channel |-> relay.message[1].channel,
                                              payload |-> relay.message[1].payload])]
                ELSE [q EXCEPT !.pc = "stopped", !.message = <<>>,
                               !.failed = Append(@, relay.message[1])]
    /\ UNCHANGED <<now, resource, redis, req, dw, calls, revocations, deletes, rs, au>>

\* _ = state.redis.publish(message.channel(), message.payload()).await: the
\* publish succeeds or fails, and the loop goes on either way.
Publish(ok) ==
    LET n == Len(relay.publish_calls)
        q == [relay EXCEPT !.publish_calls[n] = Completed(@, ok, relay.exit_signal)]
    IN
    /\ relay.pc = "publish"
    /\ relay' = IF ok
                THEN [q EXCEPT !.pc = "select", !.message = <<>>,
                               !.published =
                                   Append(@, [channel |-> relay.message[1].channel,
                                              payload |-> relay.message[1].payload])]
                ELSE [q EXCEPT !.pc = "select", !.message = <<>>,
                               !.failed = Append(@, relay.message[1])]
    /\ UNCHANGED <<now, resource, redis, req, dw, calls, revocations, deletes, rs, au>>

InitRelay ==
    /\ now = 0
    /\ resource = InitResource
    /\ redis = <<>>
    /\ req = [r \in Requests |-> IdleReq]
    /\ dw = IdleDw
    /\ calls = 0
    /\ revocations = 0
    /\ deletes = 0
    /\ rs = IdleRs
    /\ au = IdleAu
    /\ relay = IdleRelay

\* The steps of the task itself.
RelayStep ==
    \/ SelectExit
    \/ SelectRecv
    \/ \E ok \in BOOLEAN : Publish(ok)

NextRelay ==
    \/ \E payload \in Payloads : Notify(payload)
    \/ ListenerFails
    \/ ExitSignal
    \/ RelayStep

\* The runtime polls the task whenever one of its futures is ready, and the
\* key-value store answers every publish, with a success or an error.
SpecRelay == InitRelay /\ [][NextRelay]_vars /\ WF_vars(RelayStep)

\* ------------------------------------------------- claims on the resolver

\* The three for_each loops of the resolver run have taken every row.
RsDone == rs.todo1 = {} /\ rs.todo2 = {} /\ rs.todo3 = {}

Rule(workspace_id, resource_id, permission_id) ==
    [workspace_id |-> workspace_id, resource_id |-> resource_id,
     permission_id |-> permission_id]

\* The three passes over the rows of `input`, each pass in one fixed order.
ResolveRows(input) ==
    InsertIncludes(
        InsertExcludes(InsertSuperAdmins(<<>>, RowSeq(input.super_admins)),
                       RowSeq(input.excludes)),
        RowSeq(input.includes))

\* The entry of (workspace, permission) in a grant set is of the given type.
HasEntry(workspace_permissions, w, p, type) ==
    /\ w \in DOMAIN workspace_permissions
    /\ workspace_permissions[w].kind = "Member"
    /\ p \in DOMAIN workspace_permissions[w].permissions
    /\ workspace_permissions[w].permissions[p].type = type

\* C11: whatever the order in which the rows of each pass are returned, the
\* resolved grant set is the one a fixed order gives, and no resource with an
\* include rule for (workspace, permission) is in that permission's Exclude set.
C11_IncludeDominatesAnyOrder ==
    RsDone =>
        /\ rs.workspace_permissions = ResolveRows(rs.input)
        /\ \A row \in rs.input.includes :
              HasEntry(rs.workspace_permissions, row.workspace_id,
                       row.permission_id, "Exclude")
              => row.resource_id \notin
                    rs.workspace_permissions[row.workspace_id]
                        .permissions[row.permission_id].resources

\* Two exclude rows and an include row on one (workspace, permission): the
\* included resource has left the Exclude set, the other one stays.
C11_Witness ==
    /\ RsDone
    /\ rs.input.excludes = {Rule(1, 3, 1), Rule(1, 4, 1)}
    /\ rs.input.includes = {Rule(1, 4, 1)}
    /\ rs.workspace_permissions[1] = Member(MapPut(<<>>, 1, Exclude({3})))

\* C12 as stated: every include rule of a Member workspace puts the resource
\* in the permission's Include set, also when the permission has exclude
\* rules from pass 2.
C12_IncludeRuleAddsToIncludeSet ==
    RsDone =>
        \A row \in rs.input.includes :
            (/\ row.workspace_id \in DOMAIN rs.workspace_permissions
             /\ rs.workspace_permissions[row.workspace_id].kind = "Member")
            => /\ HasEntry(rs.workspace_permissions, row.workspace_id,
                           row.permission_id, "Include")
               /\ row.resource_id \in
                    rs.workspace_permissions[row.workspace_id]
                        .permissions[row.permission_id].resources

\* C12 amended: an include rule of a Member workspace puts the resource in
\* the permission's Include set when pass 2 left no entry for the permission;
\* when pass 2 left an Exclude entry, the entry stays an Exclude entry and the
\* resource is not in it.
C12_IncludeRuleByEntryType ==
    RsDone =>
        \A row \in rs.input.includes :
            (/\ row.workspace_id \in DOMAIN rs.workspace_permissions
             /\ rs.workspace_permissions[row.workspace_id].kind = "Member")
            => LET entry == rs.workspace_permissions[row.workspace_id]
                                .permissions[row.permission_id]
               IN  IF HasEntry(rs.pass2, row.workspace_id, row.permission_id, "Exclude")
                   THEN /\ entry.type = "Exclude"
                        /\ row.resource_id \notin entry.resources
                        /\ entry.resources \subseteq
                             rs.pass2[row.workspace_id]
                                 .permissions[row.permission_id].resources
                   ELSE /\ entry.type = "Include"
                        /\ row.resource_id \in entry.resources

\* One include rule on a permission with an exclude rule from pass 2, one on
\* a permission without.
C12_Witness ==
    /\ RsDone
    /\ rs.input.super_admins = {}
    /\ rs.input.excludes = {Rule(1, 3, 1)}
    /\ rs.input.includes = {Rule(1, 3, 1), Rule(1, 3, 2)}
    /\ rs.workspace_permissions[1] =
            Member(MapPut(MapPut(<<>>, 1, Exclude({})), 2, Include({3})))

\* C13: a workspace the first pass marked SuperAdmin stays SuperAdmin, with no
\* permission entries, through the rows of the second and third pass; and the
\* grant set lists every workspace id once.
C13_SuperAdminKept ==
    /\ \A w \in rs.input.super_admins \ rs.todo1 :
          /\ w \in DOMAIN rs.workspace_permissions
          /\ rs.workspace_permissions[w] = SuperAdmin
    /\ Len(Ascending(DOMAIN rs.workspace_permissions))
            = Cardinality(DOMAIN rs.workspace_permissions)
    /\ \A i, j \in DOMAIN Ascending(DOMAIN rs.workspace_permissions) :
          i # j => Ascending(DOMAIN rs.workspace_permissions)[i]
                    # Ascending(DOMAIN rs.workspace_permissions)[j]

\* Workspace 1 is a super admin workspace with an exclude and an include row
\* of its own; workspace 2 became a Member next to it.
C13_Witness ==
    /\ RsDone
    /\ rs.input.super_admins = {1}
    /\ rs.input.excludes = {Rule(1, 3, 1), Rule(2, 3, 1)}
    /\ rs.input.includes = {Rule(1, 4, 1)}
    /\ rs.workspace_permissions[1] = SuperAdmin
    /\ rs.workspace_permissions[2] = Member(MapPut(<<>>, 1, Exclude({3})))

\* ----------------------------------------- claims on the authentication

AuDone == au.pc = "done"
IsApiToken == au.client_type = "ApiToken"
\* The UUID a token symbol is the text of.
SegmentId(symbol) == IF symbol = "3" THEN 3 ELSE 7
\* The string is the prefix, a UUID, a dot and a UUID.
WellFormed(token) ==
    \E a, b \in {"3", "7"} : token = <<"patrv1", ".", a, ".", b>>
\* The request fetched a token row whose hash is a hash of another secret than
\* the one presented.
WrongSecret ==
    /\ IsApiToken
    /\ WellFormed(au.token)
    /\ au.row # <<>>
    /\ au.row[1].token_hash[1] = "argon2"
    /\ au.row[1].token_hash[2] # au.refresh_token

\* C14: a well-formed API token whose secret does not verify against the
\* stored hash ends in AuthorizationTokenInvalid, whatever the row's
\* not-before, expiry, revoked-at and allow-list and whatever the client IP.
C14_WrongSecretIsInvalid ==
    (AuDone /\ WrongSecret) => au.result = <<"AuthorizationTokenInvalid">>

\* C15: for one presented token and client IP, the result on a store with a
\* token row whose secret is not the presented one equals the result on the
\* store without the row.
C15_ExistenceNotObservable ==
    (AuDone /\ WrongSecret) => au.result = au.twin

\* C16: an API token string that is not prefix, UUID, dot, UUID ends in
\* MalformedApiToken, and the request makes no store operation.
C16_MalformedWithoutStoreAccess ==
    (IsApiToken /\ ~WellFormed(au.token)) =>
        /\ AuDone
        /\ au.result = <<"MalformedApiToken">>
        /\ au.store_ops = <<>>
        /\ redis = <<>>

\* A string without the separator, one without the prefix and one whose
\* second segment is no UUID have been rejected.
C16_Witness ==
    /\ AuDone
    /\ au.token \in {<<"patrv1", ".", "3", "7">>, <<"7", ".", "3">>,
                     <<"patrv1", ".", "7", ".">>}
    /\ au.result = <<"MalformedApiToken">>
    /\ au.user_api_token # <<>>

\* The login ids the store operations of the request were keyed by.
OpLogins == {au.store_ops[i].login_id : i \in DOMAIN au.store_ops}
\* The outcomes of the verification of the secret.
SecretChecks == {au.checks[i].passed : i \in {j \in DOMAIN au.checks :
                                                au.checks[j].check = "secret"}}

\* C17 as stated: the first segment after the prefix is the login id, the key
\* of the token-row fetch and of the permission cache, and the second segment
\* is the secret verified against the stored hash.
C17_LoginIdThenSecret ==
    (IsApiToken /\ WellFormed(au.token)) =>
        /\ OpLogins \subseteq {SegmentId(au.token[3])}
        /\ \A passed \in SecretChecks :
              passed <=> au.row[1].token_hash = <<"argon2", SegmentId(au.token[5])>>

\* C17 amended: the first segment after the prefix is the secret verified
\* against the stored hash, and the second segment is the login id, the key of
\* the token-row fetch and of the permission cache.
C17_SecretThenLoginId ==
    /\ []((IsApiToken /\ WellFormed(au.token)) =>
            /\ OpLogins \subseteq {SegmentId(au.token[5])}
            /\ au.pc \notin {"idle", "fetch"} => au.store_ops # <<>>
            /\ \A passed \in SecretChecks :
                  passed <=> au.row[1].token_hash = <<"argon2", SegmentId(au.token[3])>>)
    /\ [][(IsApiToken /\ au.pc = "permissions" /\ au'.pc = "inner") =>
            /\ permission_for_login_id(SegmentId(au.token[5])) \in DOMAIN redis'
            /\ DOMAIN redis' \subseteq {permission_for_login_id(SegmentId(au.token[5]))}]_vars

\* The token patrv1.7.3 authenticated as login 3 with the secret 7.
C17_Witness ==
    /\ AuDone
    /\ au.token = <<"patrv1", ".", "7", ".", "3">>
    /\ au.result = <<"Ok">>
    /\ au.inner[1].login_id = 3
    /\ Len(au.store_ops) = 2

ApiTokenCheckOrder == <<"nbf", "exp", "revoked", "ip", "secret">>
\* The error a failed check of the token row ends in.
CheckError(check) ==
    IF check = "ip" THEN "DisallowedIpAddressForApiToken"
    ELSE "AuthorizationTokenInvalid"

\* C18: the checks of a token row run in the order not-before, expiry,
\* revoked-at, IP allow-list, secret; the first failing one ends the request,
\* with DisallowedIpAddressForApiToken for the IP check and
\* AuthorizationTokenInvalid for the others; so a token expired, revoked or
\* not yet valid on arrival never ends in DisallowedIpAddressForApiToken.
C18_CheckOrder ==
    (IsApiToken /\ au.row # <<>> /\ au.row[1].token_hash[1] = "argon2") =>
        /\ Len(au.checks) <= Len(ApiTokenCheckOrder)
        /\ \A i \in DOMAIN au.checks :
              /\ au.checks[i].check = ApiTokenCheckOrder[i]
              /\ ~au.checks[i].passed =>
                    /\ i = Len(au.checks)
                    /\ AuDone
                    /\ au.result = <<CheckError(au.checks[i].check)>>
        /\ (AuDone /\ au.result # <<"Ok">>) =>
              (au.checks # <<>> /\ ~au.checks[Len(au.checks)].passed)
        /\ au.result = <<"DisallowedIpAddressForApiToken">> =>
              /\ ~IpAllowed(au.row[1].allowed_ips, au.client_ip)
              /\ au.row[1].token_nbf = <<>> \/ au.row[1].token_nbf[1] <= now
              /\ au.row[1].token_exp = <<>> \/ au.row[1].token_exp[1] >= au.arrived
              /\ au.row[1].revoked = <<>> \/ au.row[1].revoked[1] >= au.arrived

\* A token that expired before it was used from an address off its allow-list
\* ended at the expiry check.
C18_Witness ==
    /\ AuDone
    /\ au.row # <<>>
    /\ au.row[1].token_exp = <<2>>
    /\ au.arrived > 2
    /\ ~IpAllowed(au.row[1].allowed_ips, au.client_ip)
    /\ au.checks = <<[check |-> "nbf", passed |-> TRUE], [check |-> "exp", passed |-> FALSE]>>
    /\ au.result = <<"AuthorizationTokenInvalid">>

\* C19: a session token whose signature verifies and whose issuer is not the
\* expected one ends in MalformedAccessToken with no store operation made.
C19_WrongIssuerBeforeStore ==
    (/\ au.client_type = "WebDashboard"
     /\ au.jwt[1].signature = "valid"
     /\ au.jwt[1].claims.iss # JWT_ISSUER) =>
        /\ AuDone
        /\ au.result = <<"MalformedAccessToken">>
        /\ au.store_ops = <<>>
        /\ redis = <<>>

\* A signed token of another issuer, otherwise in order, has been rejected.
C19_Witness ==
    /\ AuDone
    /\ au.client_type = "WebDashboard"
    /\ au.jwt[1].signature = "valid"
    /\ au.jwt[1].claims.iss = "other"
    /\ au.jwt[1].claims.sub = 1
    /\ PATR_JWT_AUDIENCE \in au.jwt[1].claims.aud
    /\ au.arrived = 1
    /\ au.result = <<"MalformedAccessToken">>

\* ------------------------------------------------------ claims on the relay

\* C20: once the exit signal has fired the relay reaches Stopped, whether or
\* not another notification arrives, and a stopped relay stays stopped and
\* publishes nothing.
C20_ShutdownStopsRelay ==
    /\ (relay.exit_signal = "ready") ~> (relay.pc = "stopped")
    /\ [][relay.pc = "stopped" =>
            /\ relay'.pc = "stopped"
            /\ relay'.published = relay.published
            /\ relay'.received = relay.received]_vars

\* The relay stopped on the signal without a notification ever arriving.
C20_Witness ==
    /\ relay.pc = "stopped"
    /\ relay.exit_signal = "ready"
    /\ relay.arrivals = 0
    /\ relay.received = <<>>

\* The relay makes a step of its own: it leaves the select or takes an item.
RelayMoves == relay'.pc # relay.pc \/ Len(relay'.inbox) < Len(relay.inbox)

\* C21: when the exit signal and a notification are both ready at a select,
\* the relay stops in that step and neither receives nor publishes the
\* notification; no publish is issued once the signal has fired, and at most
\* one publish, the last one, completes after it.
C21_ShutdownWinsRace ==
    /\ [][(/\ relay.pc = "select"
           /\ relay.exit_signal = "ready"
           /\ relay.inbox # <<>>
           /\ RelayMoves)
          => /\ relay'.pc = "stopped"
             /\ relay'.inbox = relay.inbox
             /\ relay'.received = relay.received
             /\ relay'.publish_calls = relay.publish_calls
             /\ relay'.published = relay.published]_vars
    /\ [](\A i \in DOMAIN relay.publish_calls :
            /\ ~relay.publish_calls[i].issued_after_exit
            /\ relay.publish_calls[i].completed_after_exit
                  => i = Len(relay.publish_calls))

\* The signal fired during a publish, a notification arrived meanwhile, the
\* publish completed and the relay stopped with the notification unpublished.
C21_Witness ==
    /\ relay.pc = "stopped"
    /\ relay.inbox # <<>>
    /\ Head(relay.inbox).ok
    /\ relay.publish_calls # <<>>
    /\ relay.publish_calls[Len(relay.publish_calls)].completed_after_exit

\* The (channel, payload) pair of a notification or of a publish call.
Pair(x) == [channel |-> x.channel, payload |-> x.payload]
Pairs(seq) == [i \in DOMAIN seq |-> Pair(seq[i])]
IsOk(item) == item.ok
Succeeded(call) == call.outcome = "ok"

\* C22: the publish calls are, pair for pair, the notifications received, and
\* these are the notifications the store sent, in the order it sent them;
\* the pairs published are those of the calls that succeeded; only the last
\* call can be awaiting its answer.
C22_PublishesWhatItReceives ==
    /\ Pairs(relay.publish_calls) = Pairs(relay.received)
    /\ relay.received \o SelectSeq(relay.inbox, IsOk) = relay.notified
    /\ relay.published = Pairs(SelectSeq(relay.publish_calls, Succeeded))
    /\ \A i \in DOMAIN relay.publish_calls :
          relay.publish_calls[i].outcome = "pending"
            <=> (i = Len(relay.publish_calls) /\ relay.pc = "publish")

\* Two notifications with different payloads waited together in the inbox
\* and both were published, in the order sent.
C22_Witness ==
    /\ Len(relay.published) = 2
    /\ relay.published[1].payload # relay.published[2].payload
    /\ relay.published = Pairs(SubSeq(relay.notified, 1, 2))
    /\ Len(relay.notified) = 3
    /\ Len(relay.inbox) = 1

\* C23: a publish that fails leaves the relay Listening and the notification
\* is neither put back nor published again; a notification waiting at a
\* select after a failure gets its publish call, unless the exit signal fires.
C23_FailedPublishKeepsListening ==
    /\ [][(relay.pc = "publish" /\ Len(relay'.failed) > Len(relay.failed))
          => /\ relay'.pc = "select"
             /\ relay'.inbox = relay.inbox
             /\ relay'.publish_calls[Len(relay.publish_calls)].outcome = "err"
             /\ Len(relay'.publish_calls) = Len(relay.publish_calls)]_vars
    /\ [](Len(relay.publish_calls) = Len(relay.received))
    /\ \A n \in 0..(MaxNotifications + 1) :
          (/\ relay.failed # <<>>
           /\ relay.pc = "select"
           /\ relay.inbox # <<>>
           /\ Head(relay.inbox).ok
           /\ Len(relay.publish_calls) = n)
          ~> (\/ /\ Len(relay.publish_calls) = n + 1
                 /\ Pair(relay.publish_calls[n + 1]) = Pair(relay.received[n + 1])
              \/ relay.exit_signal = "ready")

\* A publish failed and the next notification was published.
C23_Witness ==
    /\ Len(relay.publish_calls) = 2
    /\ relay.publish_calls[1].outcome = "err"
    /\ relay.publish_calls[2].outcome = "ok"
    /\ Len(relay.failed) = 1
    /\ Len(relay.published) = 1
    /\ relay.pc = "select"
    /\ relay.exit_signal = "pending"

\* ------------------------------------- claims on the life of the cache keys

\* The logins whose snapshot in the store s holds the workspace w and was
\* created before the revocation timestamp time.
OlderSnapshots(s, w, time) ==
    {l \in Logins :
        /\ permission_for_login_id(l) \in DOMAIN s
        /\ w \in DOMAIN s[permission_for_login_id(l)].value.permission
        /\ Applicable(s[permission_for_login_id(l)].value.creation_time, time)}

\* A call deletes the revocation timestamp of the workspace w in this step.
ReaderDeletes(w) ==
    \E r \in Requests : Moves(r, "workspace_del", "done") /\ Head(req[r].todo) = w

\* C24: the revocation timestamp of a workspace leaves the store only by a
\* reader's del or once no snapshot created before it is left; a snapshot
\* expires CACHED_PERMISSIONS_VALIDITY after its creation, whatever happens.
C24_MarkerOutlivesSnapshots ==
    /\ [][\A w \in Workspaces :
            LET key == workspace_id_revocation_timestamp(w) IN
            (key \in DOMAIN redis /\ key \notin DOMAIN redis')
                => \/ ReaderDeletes(w)
                   \/ OlderSnapshots(redis', w,
                                     FromUnixTimestamp(redis[key].value)) = {}]_vars
    /\ [](\A l \in Logins :
            LET key == permission_for_login_id(l) IN
            key \in DOMAIN redis
                => /\ redis[key].value.creation_time <= now
                   /\ redis[key].exp = redis[key].value.creation_time
                                          + CACHED_PERMISSIONS_VALIDITY * TicksPerSec)

\* delete_workspace has written its revocation timestamp, a snapshot created
\* before it is still in the store, and so is the timestamp.
C24_Witness ==
    /\ dw.result = "ResetContent"
    /\ workspace_id_revocation_timestamp(dw.workspace_id) \in DOMAIN redis
    /\ OlderSnapshots(redis, dw.workspace_id, FromUnixTimestamp(dw.wrote[1])) # {}

\* -------------------------------------------- claims on delete_workspace

\* C25: delete_workspace on a workspace that owns a resource not deleted
\* answers WorkspaceNotEmpty, and neither marks the workspace deleted nor
\* writes its revocation timestamp.
C25_NotEmptyChangesNothing ==
    /\ [][(/\ dw.pc = "count"
           /\ dw'.pc # "count"
           /\ ResourceCount(dw.workspace_id) > 0)
          => /\ dw'.pc = "done"
             /\ dw'.result = "WorkspaceNotEmpty"
             /\ resource' = resource
             /\ redis' = redis]_vars
    /\ [](dw.result = "WorkspaceNotEmpty"
            => /\ dw.pc = "done"
               /\ dw.wrote = <<>>
               /\ resource[dw.workspace_id].deleted = NULL
               /\ workspace_id_revocation_timestamp(dw.workspace_id)
                     \notin DOMAIN redis)

\* The owner's delete of a workspace that owns a live resource was refused.
C25_Witness ==
    /\ dw.pc = "done"
    /\ dw.result = "WorkspaceNotEmpty"
    /\ workspace[dw.workspace_id].super_admin_id = dw.user_id
    /\ ResourceCount(dw.workspace_id) > 0

\* ------------------------------------------------ claims on repeated calls

\* No handler has changed the relational store or written a revocation
\* timestamp.
Undisturbed ==
    /\ resource = InitResource
    /\ revocations = 0
    /\ dw.wrote = <<>>

\* C27: while the relational store is unchanged and no revocation timestamp
\* has been written, every finished call returns the grant set the resolver
\* computes for its login from the store, so the calls for one login agree,
\* whether they resolved or read the snapshot.
C27_RepeatedCallsAgree ==
    Undisturbed =>
        \A r \in Requests :
            Done(r) =>
                /\ req[r].result = <<Resolve(req[r].login_id)>>
                /\ \A other \in Requests :
                      (Done(other) /\ req[other].login_id = req[r].login_id)
                          => req[other].result = req[r].result

\* A call resolved and wrote the snapshot; a second call for the same login
\* read that snapshot and returned its grant set.
C27_Witness ==
    /\ Undisturbed
    /\ Done(1) /\ Done(2)
    /\ req[1].login_id = req[2].login_id
    /\ ReturnedFresh(1)
    /\ Hit(2) /\ ReturnedCached(2)
    /\ req[2].data = req[1].wrote
    /\ req[2].result # <<<<>>>>

\* ------------------------------------------------ claims on failing stores

DelOps == {"login_del", "workspace_del", "global_del"}

\* The failed operations of the call r other than the dels.
FatalFaults(r) == {i \in DOMAIN req[r].faults : req[r].faults[i] \notin DelOps}

\* C26: a call in which a get of the key-value store, the setex of the
\* snapshot or a relational query failed has returned an error and no grant
\* set, at that operation; a call in which nothing or only a del failed goes
\* on and returns a grant set.
C26_StoreFailures ==
    \A r \in Requests :
        /\ FatalFaults(r) # {}
              => /\ Done(r)
                 /\ req[r].error
                 /\ req[r].result = <<>>
                 /\ FatalFaults(r) = {Len(req[r].faults)}
        /\ (Done(r) /\ FatalFaults(r) = {})
              => /\ ~req[r].error
                 /\ req[r].result # <<>>
                 /\ req[r].faults # <<>>
                       => /\ Len(req[r].faults) = 1
                          /\ req[r].result = <<req[r].data[1].permission>>

\* The three queries ran, the setex failed after the store had written the
\* snapshot, and the call returned an error.
C26_Witness ==
    \E r \in Requests :
        /\ Done(r)
        /\ req[r].faults = <<"setex">>
        /\ req[r].queries = 3
        /\ req[r].error
        /\ req[r].result = <<>>
        /\ permission_for_login_id(req[r].login_id) \in DOMAIN redis

\* The del of an applicable workspace timestamp failed, the timestamp is
\* still there, and the call returned the snapshot's grant set.
C26_DelFailed ==
    \E r \in Requests :
        /\ Done(r)
        /\ req[r].faults = <<"workspace_del">>
        /\ ~req[r].error
        /\ req[r].result = <<req[r].data[1].permission>>
        /\ workspace_id_revocation_timestamp(Head(req[r].todo)) \in DOMAIN redis

\* ------------------------------------------ claims on the stored token hash

\* The request fetched a token row whose stored hash cannot be parsed.
UnparsableHash ==
    /\ IsApiToken
    /\ au.row # <<>>
    /\ PasswordHashNew(au.row[1].token_hash) = <<>>

\* The not-before, expiry, revoked-at and IP checks of the row all passed.
RowChecksPassed ==
    /\ Len(au.checks) >= 4
    /\ \A i \in 1..4 : au.checks[i].passed

\* C28: a request whose token row has a stored hash that cannot be parsed and
\* passed the not-before, expiry, revoked-at and IP checks ends in a server
\* error; AuthorizationTokenInvalid comes only from one of these checks; the
\* permission cache is neither read nor written for the request.
C28_UnparsableHashIsServerError ==
    UnparsableHash =>
        /\ (AuDone /\ RowChecksPassed) => au.result = <<"server_error">>
        /\ au.result = <<"AuthorizationTokenInvalid">> => ~RowChecksPassed
        /\ au.result # <<"Ok">>
        /\ au.pc \notin {"permissions", "inner"}
        /\ au.permissions = <<>>
        /\ \A i \in DOMAIN au.store_ops :
              au.store_ops[i].op # "get_permissions_for_login_id"
        /\ redis = <<>>

\* A token in order, with the right login id, from an allowed address, whose
\* row holds a hash that cannot be parsed, ended in a server error.
C28_Witness ==
    /\ AuDone
    /\ UnparsableHash
    /\ RowChecksPassed
    /\ au.row[1].allowed_ips # <<>>
    /\ au.row[1].token_exp # <<>>
    /\ au.checks[5] = [check |-> "hash", passed |-> FALSE]
    /\ au.result = <<"server_error">>

\* --------------------------------- claims on the checks of a session token

JwtCheckOrder ==
    <<"decode", "iss", "jti", "nbf", "exp", "web_login", "token_expiry", "aud">>

\* The error a failed check of a session token ends in.
JwtCheckError(check, claims) ==
    IF check \in {"decode", "iss", "aud"} THEN "MalformedAccessToken"
    ELSE IF check = "jti" /\ claims.jti = <<>> THEN "MalformedAccessToken"
    ELSE "AuthorizationTokenInvalid"

\* The request carries a session token whose signature verifies.
SignedJwt == au.client_type = "WebDashboard" /\ au.jwt[1].signature = "valid"

\* The checks made so far are the first of JwtCheckOrder, in that order; a
\* failed check is the last one and gave the request its error; the issuer,
\* the fetch and the audience passed or failed by the token's claims and the
\* login's row.
JwtChecksInOrder ==
    SignedJwt =>
        LET claims == au.jwt[1].claims IN
        /\ Len(au.checks) <= Len(JwtCheckOrder)
        /\ \A i \in DOMAIN au.checks :
              /\ au.checks[i].check = JwtCheckOrder[i]
              /\ ~au.checks[i].passed =>
                    /\ i = Len(au.checks)
                    /\ AuDone
                    /\ au.result = <<JwtCheckError(au.checks[i].check, claims)>>
              /\ au.checks[i].check = "iss"
                    => (au.checks[i].passed <=> claims.iss = JWT_ISSUER)
              /\ au.checks[i].check = "web_login"
                    => (au.checks[i].passed <=> SelectWebLogin(claims.sub) # <<>>)
              /\ au.checks[i].check = "aud"
                    => (au.checks[i].passed <=> PATR_JWT_AUDIENCE \in claims.aud)
        /\ (AuDone /\ au.result # <<"Ok">>) =>
              (au.checks # <<>> /\ ~au.checks[Len(au.checks)].passed)
        /\ (AuDone /\ au.result = <<"Ok">>) =>
              (Len(au.checks) = Len(JwtCheckOrder) /\ au.checks[Len(au.checks)].passed)

\* The login row of the token's subject exists and had not expired when the
\* request arrived.
LoginRowUnexpired ==
    LET user == SelectWebLogin(au.jwt[1].claims.sub) IN
    user # <<>> /\ au.arrived <= user[1].token_expiry

\* A finished request with a signed session token without the expected
\* audience.
UnexpectedAudience ==
    /\ SignedJwt
    /\ AuDone
    /\ PATR_JWT_AUDIENCE \notin au.jwt[1].claims.aud

\* C29 as stated: the checks are made in order, and every token with an
\* unexpected audience ends in MalformedAccessToken only if its login row
\* exists and is unexpired, and in AuthorizationTokenInvalid otherwise.
C29_AudienceErrorByLoginRow ==
    /\ JwtChecksInOrder
    /\ UnexpectedAudience =>
          /\ au.result = <<"MalformedAccessToken">> => LoginRowUnexpired
          /\ ~LoginRowUnexpired => au.result = <<"AuthorizationTokenInvalid">>

\* C29, amended: the checks are made in order and the first failing one
\* decides the error; a token with an unexpected audience, the expected issuer
\* and an identifier that carries a timestamp ends in MalformedAccessToken
\* only if its login row exists and is unexpired, and in
\* AuthorizationTokenInvalid otherwise; one with another issuer or an
\* identifier without timestamp ends in MalformedAccessToken whatever its
\* login row.
C29_JwtCheckOrder ==
    /\ JwtChecksInOrder
    /\ UnexpectedAudience =>
          LET claims == au.jwt[1].claims IN
          IF claims.iss = JWT_ISSUER /\ claims.jti # <<>>
          THEN /\ au.result = <<"MalformedAccessToken">> => LoginRowUnexpired
               /\ ~LoginRowUnexpired => au.result = <<"AuthorizationTokenInvalid">>
               /\ au.result # <<"Ok">>
          ELSE /\ au.result = <<"MalformedAccessToken">>
               /\ au.store_ops = <<>>

\* A token in order but for its audience, of a login whose row exists and is
\* unexpired, passed seven checks and was rejected at the audience.
C29_Witness ==
    /\ UnexpectedAudience
    /\ au.jwt[1].claims.iss = JWT_ISSUER
    /\ LoginRowUnexpired
    /\ Len(au.checks) = Len(JwtCheckOrder)
    /\ au.checks[Len(au.checks)] = [check |-> "aud", passed |-> FALSE]
    /\ au.result = <<"MalformedAccessToken">>

\* ------------------------------ claims on the time checks of an API token

\* The three conditions on the timestamps of the token row, at the instant t.
NbfReached(row, t) == row.token_nbf = <<>> \/ row.token_nbf[1] <= t
NotExpired(row, t) == row.token_exp = <<>> \/ row.token_exp[1] >= t
NotRevoked(row, t) == row.revoked = <<>> \/ row.revoked[1] >= t

\* The request leaves the check at pc in this step.
AuLeaves(pc) == au.pc = pc /\ au'.pc # pc

\* The not-before, expiry and revoked-at checks of the row are decided.
TimeChecksDecided ==
    /\ IsApiToken
    /\ au.row # <<>>
    /\ au.pc \notin {"nbf", "exp", "revoked"}

TimeChecksPassed == Len(au.checks) >= 3 /\ \A i \in 1..3 : au.checks[i].passed

\* C30: each time check of a token row passes exactly when its timestamp is
\* absent or, at the instant of the check, not-before <= now, expiry >= now,
\* revoked-at >= now, and fails with AuthorizationTokenInvalid otherwise; a
\* row whose three checks were made at one instant passed them exactly when
\* the three conditions held at that instant.
C30_ClosedBoundaries ==
    /\ [][/\ AuLeaves("nbf") =>
                /\ au'.pc = "exp" <=> NbfReached(au.row[1], now)
                /\ au'.pc # "exp" => au'.result = <<"AuthorizationTokenInvalid">>
          /\ AuLeaves("exp") =>
                /\ au'.pc = "revoked" <=> NotExpired(au.row[1], now)
                /\ au'.pc # "revoked" => au'.result = <<"AuthorizationTokenInvalid">>
          /\ AuLeaves("revoked") =>
                /\ au'.pc = "ip" <=> NotRevoked(au.row[1], now)
                /\ au'.pc # "ip" => au'.result = <<"AuthorizationTokenInvalid">>]_vars
    /\ []((TimeChecksDecided /\ au.arrived = now) =>
            (TimeChecksPassed <=> /\ NbfReached(au.row[1], now)
                                  /\ NotExpired(au.row[1], now)
                                  /\ NotRevoked(au.row[1], now)))

\* A token used at the very instant of its not-before, expiry and revoked-at
\* timestamps passed the three checks.
C30_Witness ==
    /\ TimeChecksDecided
    /\ TimeChecksPassed
    /\ au.arrived = now
    /\ au.row[1].token_nbf = <<now>>
    /\ au.row[1].token_exp = <<now>>
    /\ au.row[1].revoked = <<now>>

\* ------------------------------- claims on the age of a session identifier

\* The age of the identifier's timestamp at the instant t, and the window.
JtiAge(claims, t) == t - claims.jti[1]
SessionWindow == REFRESH_TOKEN_VALIDITY * TicksPerSec

\* The request ended at the check of the identifier.
EndedAtJti ==
    /\ SignedJwt
    /\ AuDone
    /\ Len(au.checks) = 3
    /\ au.checks[3] = [check |-> "jti", passed |-> FALSE]

\* C31: the age check of a session token ends the request in
\* AuthorizationTokenInvalid exactly when now minus the identifier's
\* timestamp is greater than the window, lets it go on when the age is at
\* most the window, and ends it in MalformedAccessToken when the identifier
\* has no timestamp; a request ended there has made no store operation.
C31_JtiAgeStrict ==
    /\ [][AuLeaves("jti") =>
            LET claims == au.claims[1] IN
            /\ au'.result = <<"AuthorizationTokenInvalid">>
                  <=> (claims.jti # <<>> /\ JtiAge(claims, now) > SessionWindow)
            /\ au'.pc = "jwt_nbf"
                  <=> (claims.jti # <<>> /\ JtiAge(claims, now) <= SessionWindow)
            /\ au'.result = <<"MalformedAccessToken">> <=> claims.jti = <<>>
            /\ au'.store_ops = <<>>
            /\ redis' = <<>>]_vars
    /\ [](EndedAtJti =>
            /\ au.store_ops = <<>>
            /\ redis = <<>>
            /\ au.permissions = <<>>
            /\ au.result = IF au.claims[1].jti = <<>>
                           THEN <<"MalformedAccessToken">>
                           ELSE <<"AuthorizationTokenInvalid">>)

\* A token whose identifier is exactly as old as the window passed the check.
C31_Witness ==
    /\ SignedJwt
    /\ Len(au.checks) >= 3
    /\ au.checks[3] = [check |-> "jti", passed |-> TRUE]
    /\ au.arrived = now
    /\ JtiAge(au.claims[1], now) = SessionWindow

\* ------------------------------------ claims on what authentication gates

\* The checks of the branch the request took.
BranchChecks == IF IsApiToken THEN ApiTokenCheckOrder ELSE JwtCheckOrder

\* Every credential check of the request's branch was made and passed.
AllChecksPassed ==
    /\ Len(au.checks) = Len(BranchChecks)
    /\ \A i \in DOMAIN au.checks :
          au.checks[i].check = BranchChecks[i] /\ au.checks[i].passed

\* get_permissions_for_login_id was called for the request.
ConsultedCache ==
    \E i \in DOMAIN au.store_ops : au.store_ops[i].op = "get_permissions_for_login_id"

\* C36: get_permissions_for_login_id is called, and a snapshot written, only
\* for a request all of whose credential checks passed; the inner service is
\* called only with the grant set that call returned; a request that ended
\* in an error has not called the inner service and has written no snapshot.
C36_AuthenticationGates ==
    /\ (ConsultedCache \/ au.pc \in {"permissions", "inner"} \/ redis # <<>>)
          => AllChecksPassed
    /\ redis # <<>> => ConsultedCache
    /\ au.permissions # <<>> => ConsultedCache
    /\ au.inner # <<>> =>
          /\ au.permissions # <<>>
          /\ au.inner[1].permissions = au.permissions[1]
          /\ au.result = <<"Ok">>
    /\ (AuDone /\ au.result # <<"Ok">>) =>
          /\ au.inner = <<>>
          /\ au.permissions = <<>>
          /\ ~ConsultedCache
          /\ redis = <<>>

\* A session token passed its eight checks, the grant set was resolved and
\* cached, and the inner service was called with it.
C36_Witness ==
    /\ AuDone
    /\ SignedJwt
    /\ AllChecksPassed
    /\ ConsultedCache
    /\ au.inner # <<>>
    /\ au.inner[1].permissions = Resolve(au.jwt[1].claims.sub)
    /\ permission_for_login_id(au.jwt[1].claims.sub) \in DOMAIN redis

\* ------------------------------------------- claims on the receive errors

\* What recv() has returned so far: notifications and errors.
Consumed == relay.arrivals - Len(relay.inbox)

\* C40: the step in which recv() returns an error leaves the relay at the
\* select and issues no publish; the relay stops only at a select with the
\* exit signal ready; after an error the next item is taken unless the exit
\* signal fires.
C40_RecvErrorKeepsListening ==
    /\ [][(/\ relay.pc = "select"
           /\ relay.inbox # <<>>
           /\ ~Head(relay.inbox).ok
           /\ Len(relay'.inbox) < Len(relay.inbox))
          => /\ relay'.pc = "select"
             /\ relay'.inbox = Tail(relay.inbox)
             /\ relay'.publish_calls = relay.publish_calls
             /\ relay'.published = relay.published
             /\ relay'.received = relay.received]_vars
    /\ [][(relay.pc # "stopped" /\ relay'.pc = "stopped")
          => (relay.pc = "select" /\ relay.exit_signal = "ready")]_vars
    /\ \A n \in 0..(MaxNotifications + 1) :
          (/\ relay.pc = "select"
           /\ relay.inbox # <<>>
           /\ ~Head(relay.inbox).ok
           /\ Consumed = n)
          ~> (Consumed = n + 1 \/ relay.exit_signal = "ready")

\* recv() returned an error, then the notification that is being published.
C40_Witness ==
    /\ relay.pc = "publish"
    /\ relay.exit_signal = "pending"
    /\ relay.inbox = <<>>
    /\ relay.arrivals = 2
    /\ Len(relay.notified) = 1
    /\ Len(relay.publish_calls) = 1

\* --------------------------------------- claims on the resolver's reference

\* The resources of the rows of a rule query for (workspace, permission).
RuleResources(rows, w, p) ==
    {row.resource_id : row \in {x \in rows : x.workspace_id = w /\ x.permission_id = p}}

\* The permissions that have a row for the workspace.
RulePermissions(input, w) ==
    {row.permission_id : row \in {x \in input.excludes \cup input.includes :
                                      x.workspace_id = w}}

\* The reference of C33: SuperAdmin for a workspace with a super-admin row;
\* else per permission Exclude(E \ I) when there is an exclude row, and
\* Include(I) otherwise.
Reference(input) ==
    LET ws == input.super_admins
                \cup {row.workspace_id : row \in input.excludes \cup input.includes}
        entry(w, p) ==
            LET E == RuleResources(input.excludes, w, p)
                I == RuleResources(input.includes, w, p)
            IN  IF E # {} THEN Exclude(E \ I) ELSE Include(I)
    IN  [w \in ws |->
            IF w \in input.super_admins THEN SuperAdmin
            ELSE Member([p \in RulePermissions(input, w) |-> entry(w, p)])]

\* C33: for every set of rows, and every order in which a pass gets its
\* rows, the resolver ends with the grant set of the reference; an entry of
\* a Member workspace is one Include set or one Exclude set.
C33_ResolverEqualsReference ==
    /\ RsDone => rs.workspace_permissions = Reference(rs.input)
    /\ \A w \in DOMAIN rs.workspace_permissions :
          rs.workspace_permissions[w].kind = "Member" =>
              \A p \in DOMAIN rs.workspace_permissions[w].permissions :
                  rs.workspace_permissions[w].permissions[p].type
                      \in {"Include", "Exclude"}

\* A run over a super-admin row, two exclude rows of one permission, an
\* include row of one of their resources and an include row of a permission
\* without exclude rows.
C33_Witness ==
    /\ RsDone
    /\ rs.input.super_admins = {2}
    /\ rs.input.excludes = {Rule(1, 3, 1), Rule(1, 4, 1)}
    /\ rs.input.includes = {Rule(1, 3, 1), Rule(1, 3, 2)}
    /\ rs.workspace_permissions[2] = SuperAdmin
    /\ rs.workspace_permissions[1] =
          Member((1 :> Exclude({4})) @@ (2 :> Include({3})))


\* ------------------------------------------------- delete_workspace, C32

\* The workspace revocation keys.
WorkspaceMarkers == {workspace_id_revocation_timestamp(w) : w \in PathWorkspaceIds}

\* This step writes the revocation timestamp of a workspace.
MarkerWritten(key) ==
    /\ key \in DOMAIN redis'
    /\ key \notin DOMAIN redis \/ redis'[key] # redis[key]

\* C32: delete_workspace reaches the write of the workspace revocation
\* timestamp only from the UPDATE that marks the workspace deleted at that
\* instant; a revocation timestamp is written only by that step of the
\* request for that workspace, and its value is the time of that step in
\* whole seconds; the success response is returned only by a step that has
\* written the timestamp, and a failed write ends the request with an error.
C32_UpdateBeforeMarker ==
    /\ [][/\ (dw'.pc = "setex" /\ dw.pc # "setex") =>
                /\ dw.pc = "update"
                /\ resource[dw.workspace_id].deleted # now
                     => resource' # resource
                /\ resource'[dw.workspace_id].deleted = now
          /\ \A key \in WorkspaceMarkers :
                MarkerWritten(key) =>
                    /\ dw.pc = "setex" /\ dw'.pc = "done"
                    /\ key = workspace_id_revocation_timestamp(dw.workspace_id)
                    /\ resource[dw.workspace_id].deleted # NULL
                    /\ resource' = resource
                    /\ redis'[key].value = UnixTimestamp(now)
          /\ (dw.pc = "setex" /\ dw'.pc = "done") =>
                /\ dw'.result \in {"ResetContent", "server_error"}
                /\ dw'.result = "ResetContent" =>
                      LET key == workspace_id_revocation_timestamp(dw.workspace_id) IN
                      /\ key \in DOMAIN redis'
                      /\ redis'[key] = [value |-> UnixTimestamp(now),
                                        exp |-> now + RevocationTtl * TicksPerSec]
                      /\ dw'.wrote = <<UnixTimestamp(now)>>
          /\ (dw'.result = "ResetContent" /\ dw.result # "ResetContent") =>
                dw.pc = "setex"]_vars
    /\ [](dw.result = "server_error" => dw.wrote = <<>>)

\* A workspace is deleted in one second and its timestamp written in the next.
C32_Witness ==
    /\ dw.pc = "done"
    /\ dw.result = "ResetContent"
    /\ dw.workspace_id = 1
    /\ UnixTimestamp(resource[1].deleted) = 0
    /\ dw.wrote = <<1>>
    /\ workspace_id_revocation_timestamp(1) \in DOMAIN redis
    /\ redis[workspace_id_revocation_timestamp(1)].value = 1

\* The write of the timestamp has failed and the request has ended in an error.
C32_SetexFailed ==
    /\ dw.pc = "done"
    /\ dw.result = "server_error"
    /\ resource[dw.workspace_id].deleted # NULL

\* ------------------------------------------------- delete_workspace, C39

\* The request names a workspace that has no row.
DwUnknownWorkspace == dw.workspace_id \notin DOMAIN workspace

\* The request comes from a user who is not the super-admin of the workspace.
DwForeignUser ==
    /\ dw.workspace_id \in DOMAIN workspace
    /\ workspace[dw.workspace_id].super_admin_id # dw.user_id

\* A request in progress or finished.
DwActive == dw.pc # "idle"

\* The request has written nothing and, if it has ended, has ended in
\* ResourceDoesNotExist.
DwRejected ==
    /\ dw.wrote = <<>>
    /\ dw.pc = "done" => dw.result = "ResourceDoesNotExist"

\* A step of the request changes neither the relational store nor a
\* revocation timestamp.
DwStepWithoutEffect ==
    (dw'.workspace_id = dw.workspace_id /\ dw'.user_id = dw.user_id /\ dw' # dw) =>
        /\ resource' = resource
        /\ \A key \in WorkspaceMarkers : ~MarkerWritten(key)

\* C39: delete_workspace by a user who is not the super-admin of the
\* workspace, or for a workspace that does not exist, or for a workspace
\* already marked deleted, ends in ResourceDoesNotExist and writes neither
\* to the relational store nor a revocation timestamp.
C39_RejectedWithoutEffect ==
    /\ [](DwActive /\ (DwUnknownWorkspace \/ DwForeignUser \/ dw.was_deleted)
            => DwRejected)
    /\ [][DwActive /\ (DwUnknownWorkspace \/ DwForeignUser \/ dw.was_deleted)
            => DwStepWithoutEffect]_vars

\* The two cases of C39 that the SELECT and the owner check decide.
C39_UnknownOrForeign ==
    /\ [](DwActive /\ (DwUnknownWorkspace \/ DwForeignUser) => DwRejected)
    /\ [][DwActive /\ (DwUnknownWorkspace \/ DwForeignUser)
            => DwStepWithoutEffect]_vars

\* Requests of the three kinds have ended.
C39_UnknownSeen == dw.pc = "done" /\ DwUnknownWorkspace
C39_ForeignSeen == dw.pc = "done" /\ DwForeignUser
C39_DeletedSeen == dw.pc = "done" /\ dw.was_deleted /\ ~DwForeignUser

\* ------------------------------------------------- the frame of a hit, C38

\* The call r takes a step of get_permissions_for_login_id.
Steps(r) == req[r].pc \notin {"idle", "done"} /\ req'[r] # req[r]

\* The step leaves the entry of the key as it is.
SameEntry(key) ==
    /\ key \in DOMAIN redis' <=> key \in DOMAIN redis
    /\ key \in DOMAIN redis => redis'[key] = redis[key]

\* C38: a call that found a snapshot and read no revocation timestamp as
\* applicable has deleted nothing, written no snapshot and made no relational
\* query, returns the cached grant set, and none of its steps changes Redis;
\* a step of a call for a login reads the snapshot under the key of that login
\* only and leaves the snapshot key of every other login as it is.
C38_HitLeavesStoreUnchanged ==
    /\ [](\A r \in Requests :
            (Hit(r) /\ ~SawRevoked(r)) =>
                /\ req[r].dels = <<>>
                /\ req[r].wrote = <<>>
                /\ req[r].queries = 0
                /\ Done(r) => req[r].result = <<req[r].data[1].permission>>)
    /\ [][\A r \in Requests :
            Steps(r) =>
                LET own == permission_for_login_id(req[r].login_id) IN
                /\ req'[r].login_id = req[r].login_id
                /\ (/\ req'[r].data # <<>>
                    /\ \A i \in DOMAIN req'[r].reads : ~req'[r].reads[i].revoked)
                      => redis' = redis
                /\ req'[r].data # req[r].data =>
                      /\ own \in DOMAIN redis
                      /\ req'[r].data = <<redis[own].value>>
                /\ (req[r].pc = "get" /\ own \in DOMAIN redis) => req'[r].data # <<>>
                /\ \A l \in Logins \ {req[r].login_id} :
                      SameEntry(permission_for_login_id(l))]_vars

\* A hit has read every revocation key, one of them present and not
\* applicable, while another login has a snapshot of its own.
C38_Witness ==
    \E r \in Requests :
        /\ Done(r) /\ Hit(r) /\ ~SawRevoked(r)
        /\ ReturnedCached(r)
        /\ \E i \in DOMAIN req[r].reads : req[r].reads[i].key \in DOMAIN redis
        /\ Scope(req[r].reads[Len(req[r].reads)].key) = "global"
        /\ \E l \in Logins \ {req[r].login_id} :
              /\ permission_for_login_id(l) \in DOMAIN redis
              /\ redis[permission_for_login_id(l)].value.permission
                   # req[r].data[1].permission

\* ------------------------------------------------- the age of a snapshot, C37

\* The cache-validity window, in ticks.
ValidityWindow == CACHED_PERMISSIONS_VALIDITY * TicksPerSec

SnapshotKeys == {permission_for_login_id(l) : l \in Logins}

\* The call r returns at this step the grant set of the snapshot it read.
ReturnsCached(r) ==
    /\ req[r].pc # "done" /\ req'[r].pc = "done"
    /\ req'[r].data # <<>>
    /\ req'[r].result = <<req'[r].data[1].permission>>

WrittenAt(key) == redis[key].exp - RevocationTtl * TicksPerSec

\* The call r reads at this step the revocation timestamp of the next
\* workspace of its snapshot.
ReadsWorkspace(r) ==
    /\ req[r].pc = "workspace"
    /\ Len(req'[r].reads) = Len(req[r].reads) + 1

\* The snapshot the call holds was created before the timestamp under the
\* key was written, in the same whole second.
CreatedJustBefore(r, key) ==
    /\ key \in DOMAIN redis
    /\ req[r].data[1].creation_time < WrittenAt(key)
    /\ UnixTimestamp(req[r].data[1].creation_time) = UnixTimestamp(WrittenAt(key))

\* C35: a call whose snapshot was created before delete_workspace wrote the
\* revocation timestamp of a workspace of the snapshot, in the same whole
\* second, reads that timestamp as applicable.
C35_SameSecondIsStale ==
    [][\A r \in Requests :
          ReadsWorkspace(r) =>
              LET key == workspace_id_revocation_timestamp(Head(req[r].todo)) IN
              CreatedJustBefore(r, key) =>
                  /\ req'[r].reads[Len(req'[r].reads)].key = key
                  /\ req'[r].reads[Len(req'[r].reads)].revoked]_vars

\* What the comparison does: the timestamp is applicable exactly when the
\* snapshot was created before the start of the second of the write.
C35_StaleIffBeforeTheSecond ==
    [][\A r \in Requests :
          ReadsWorkspace(r) =>
              LET key == workspace_id_revocation_timestamp(Head(req[r].todo))
                  read == req'[r].reads[Len(req'[r].reads)]
              IN
              /\ read.key = key
              /\ read.revoked <=>
                    /\ key \in DOMAIN redis
                    /\ UnixTimestamp(req[r].data[1].creation_time)
                          < UnixTimestamp(WrittenAt(key))]_vars

\* A call has read, as not applicable, the timestamp of a workspace deleted
\* half a second after the creation of its snapshot.
C35_SeenSameSecond ==
    \E r \in Requests :
        /\ Hit(r)
        /\ req[r].data[1].creation_time = 0
        /\ \E i \in DOMAIN req[r].reads :
              LET key == req[r].reads[i].key IN
              /\ Scope(key) = "workspace"
              /\ ~req[r].reads[i].revoked
              /\ key \in DOMAIN redis
              /\ WrittenAt(key) = 1

\* ------------------------------------- the del of a rewritten timestamp, C34

\* The call r deletes at this step the login or workspace revocation
\* timestamp it has read as applicable.
DeletesObserved(r) ==
    \/ Moves(r, "login_del", "done")
    \/ Moves(r, "workspace_del", "done")

\* The key of the last revocation timestamp the call has read.
LastRead(r) == req[r].reads[Len(req[r].reads)].key

\* A writer has put a newer timestamp under the key since the call read it.
Rewritten(r) ==
    /\ LastRead(r) \in DOMAIN redis
    /\ redis[LastRead(r)].value > req[r].observed[1]

\* C34: the del of a call leaves in Redis a login or workspace revocation
\* timestamp newer than the one the call read.
C34_NewerMarkerSurvives ==
    [][\A r \in Requests :
          (DeletesObserved(r) /\ Rewritten(r)) =>
              /\ LastRead(r) \in DOMAIN redis'
              /\ redis'[LastRead(r)] = redis[LastRead(r)]]_vars

\* What the del does: whatever is under the key is gone after it.
C34_DelRemovesTheKey ==
    [][\A r \in Requests :
          DeletesObserved(r) =>
              /\ req[r].observed # <<>>
              /\ redis' = Del(redis, LastRead(r))]_vars

\* A call is about to delete a login, and another a workspace, revocation
\* timestamp that was rewritten after the call read it.
C34_LoginRewritten ==
    \E r \in Requests :
        req[r].pc = "login_del" /\ Rewritten(r)
C34_WorkspaceRewritten ==
    \E r \in Requests :
        req[r].pc = "workspace_del" /\ Rewritten(r)
====
